---- MODULE Spec2Model ----
(***************************************************************************)
(* ZeroBuild AI: the generation orchestrator (lib/ai-service.ts) and the   *)
(* publish pipeline (lib/github-service.ts).                               *)
(*                                                                         *)
(* An action is one run of an async function from one await to the next:   *)
(* the arrival of an HTTP response (or the end of a setTimeout sleep) and  *)
(* all the synchronous code that follows it up to the next await.          *)
(***************************************************************************)
EXTENDS Integers, Sequences, FiniteSets, TLC

VARIABLES
    \* ---- generateCode (one request) ----
    settings,     \* AppSettings: which keys are set, and llmProvider
    providers,    \* the sorted providers array of generateCode
    gpc,          \* "idle" | "fetch" (a request is in flight) | "sleep" | "done"
    cur,          \* index in providers of the adapter being awaited (0: none)
    mdl,          \* index of the model the adapter is on
    attempt,      \* generateWithGemini's attempt counter
    lastError,    \* the adapter's lastError
    errors,       \* generateCode's errors array
    sleeps,       \* pending setTimeout delays (ms), in the order they are awaited
    outcome,      \* what generateCode returned or threw
    invoked,      \* history: provider names whose fn was called, in order
    accepted,     \* history: provider names whose text generateCode returned
    reqs,         \* history: the model index of each request the adapter being
                  \* awaited has issued since it was called
    answered,     \* history: how many of these requests have been answered
    resp,         \* history: the last response an adapter handled, with the
                  \* adapter, model and attempt that handled it
    only429       \* history: every response handled so far was HTTP 429

VARIABLES
    \* ---- the remote repository of the publish target ----
    net,          \* "faulty": any request may meet a fault; "reliable": none does
    remote,       \* [exists, name, ready (heads/main can be read), head (commit id)]
    trees,        \* tree objects of the repository, a tree's sha is its index
    commits,      \* commit objects, a commit's sha is its index (0: auto_init's)
    \* ---- handlePushToGithub, one run per caller ----
    ppc,          \* where each caller's run is suspended
    repo,         \* what createRepo returned or threw
    push,         \* pushCode's locals: retry, latestSha, blobs, treeSha, commitSha
    result,       \* how the run ended
    hist          \* history of each run: requests issued, sleeps awaited,
                  \* steps that changed what a reader of the repository sees

VARIABLES
    \* ---- the stored project list (storage functions of project-context.tsx) ----
    stored,       \* the list under PROJECTS_KEY, <<>> when nothing is stored
    spc,          \* per caller: "off" | "idle" | "getItem" | "setItem" | "done"
    sop,          \* per caller: the call it makes, [kind, id, rev]
    slocal        \* per caller: the list its getProjects() returned

VARIABLES
    \* ---- generateClarifications (one request) ----
    cpc,          \* "off" | "idle" | "fetch" (a request is in flight) | "done"
    cproviders,   \* the sorted providers array of generateClarifications
    ccur,         \* index in cproviders of the adapter being awaited (0: none)
    cresult,      \* what generateClarifications returned or threw
    cinvoked,     \* history: provider names whose fn was called, in order
    cseen,        \* history: what became of each provider's answer
    canswer       \* history: the last answer a provider gave

genVars == <<settings, providers, gpc, cur, mdl, attempt, lastError, errors,
             sleeps, outcome, invoked, accepted, reqs, answered, resp, only429>>

pubVars == <<net, remote, trees, commits, ppc, repo, push, result, hist>>

VARIABLES
    \* ---- cleanCodeResponse and fixCommonSyntaxErrors applied to one text ----
    rpc,          \* "off" | "raw" | "repaired" | "cleaned" | "recleaned"
    input,        \* the text given, a sequence of characters
    repaired,     \* fixCommonSyntaxErrors(input)
    cleaned,      \* cleanCodeResponse(input)
    recleaned     \* cleanCodeResponse(cleanCodeResponse(input))

clarVars == <<cpc, cproviders, ccur, cresult, cinvoked, cseen, canswer>>

storeVars == <<stored, spc, sop, slocal>>

repVars == <<rpc, input, repaired, cleaned, recleaned>>

vars == <<genVars, pubVars, clarVars, repVars, storeVars>>

-----------------------------------------------------------------------------
(* Error messages.  A message is the template of the source that built it,  *)
(* the number interpolated into it (-1: none) and the words of any text     *)
(* that came from outside (a server's error body, a runtime exception).     *)
(* The model names interpolated by the adapters ('gemini-2.5-flash',        *)
(* 'gemini-2.5-flash-lite', 'llama-3.3-70b-versatile',                      *)
(* 'llama-3.1-70b-versatile', 'mixtral-8x7b-32768') and the provider names  *)
(* hold none of the words generateCode looks for.                           *)

Msg(tpl, num, ext) == [tpl |-> tpl, num |-> num, ext |-> ext]

NoMsg == Msg("", -1, {})

\* the words String.includes is asked about, case-sensitively
StaticWords(tpl) ==
    CASE tpl = "GeminiKey403"   -> {"invalid"}             \* 'Gemini API key is invalid or doesn't have access...'
      [] tpl = "GeminiKey401"   -> {"invalid"}             \* 'Gemini API key is invalid. Please get a new key...'
      [] tpl = "GeminiBlocked"  -> {"blocked"}             \* 'Gemini blocked this request (...)'
      [] tpl = "GeminiSafety"   -> {"blocked", "safety"}   \* 'Gemini blocked this for safety reasons...'
      [] tpl = "GeminiRateLimited" -> {}                   \* 'Rate limited on <model>' (capital R)
      [] tpl = "GroqRateLimit"  -> {"rate limit"}          \* 'Groq rate limit hit'
      [] tpl = "GroqKey401"     -> {"invalid"}             \* 'Groq API key is invalid. ...'
      [] tpl = "HFKey401"       -> {"invalid"}             \* 'HuggingFace API key is invalid. ...'
      [] tpl = "HFRateLimit"    -> {"rate limit"}          \* 'HuggingFace rate limit hit. ...'
      [] OTHER                  -> {}

RECURSIVE Digits(_)
Digits(n) == IF n < 10 THEN <<n>> ELSE Append(Digits(n \div 10), n % 10)

Contains(s, t) ==
    \E i \in 1..(Len(s) - Len(t) + 1) : SubSeq(s, i, i + Len(t) - 1) = t

WordDigits(w) ==
    CASE w = "429" -> <<4, 2, 9>>
      [] w = "401" -> <<4, 0, 1>>
      [] w = "403" -> <<4, 0, 3>>
      [] OTHER     -> <<>>

\* msg.includes(w)
Includes(msg, w) ==
    \/ w \in StaticWords(msg.tpl)
    \/ w \in msg.ext
    \/ /\ WordDigits(w) # <<>>
       /\ msg.num >= 0
       /\ Contains(Digits(msg.num), WordDigits(w))

\* errors.join('\n').includes(w): no word spans the '\n' between two entries
SummaryIncludes(errs, w) == \E i \in 1..Len(errs) : Includes(errs[i], w)

-----------------------------------------------------------------------------
(* What the backends can answer.                                            *)

Resp(k, n, lines, ext) == [k |-> k, n |-> n, lines |-> lines, ext |-> ext]

NoResp == [k |-> "none", n |-> -1, ext |-> {}, by |-> 0, m |-> 0, att |-> 0]

\* texts an adapter can get back, after cleanCodeResponse: length and line count
Texts ==
    {Resp("text", n, 1, {}) : n \in {99, 401, 429, 500}}
        \cup {Resp("text", 501, l, {}) : l \in {199, 200}}

\* words of a text that comes from outside the program: a server's error
\* body, the message of a runtime exception
ServerTexts == {{}, {"quota exceeded"}}

ExceptionTexts == {{}, {"invalid"}}

GeminiResponses ==
    {Resp("429", h, 0, {}) : h \in {-1, 5, 20}}            \* h: Retry-After seconds, -1 if absent
        \cup {Resp("400", -1, 0, e) : e \in ServerTexts}
        \cup {Resp("403", -1, 0, {}), Resp("401", -1, 0, {})}
        \cup {Resp("status", 500, 0, {})}
        \cup {Resp("dataError", -1, 0, {})}
        \cup {Resp("blockReason", -1, 0, {}), Resp("noCandidates", -1, 0, {}),
              Resp("SAFETY", -1, 0, {})}
        \cup {Resp("exception", -1, 0, e) : e \in ExceptionTexts}
        \cup Texts

GroqResponses ==
    {Resp("429", -1, 0, {}), Resp("401", -1, 0, {})}
        \cup {Resp("status", s, 0, {}) : s \in {403, 500}}
        \cup {Resp("exception", -1, 0, e) : e \in ExceptionTexts}
        \cup Texts

HuggingFaceResponses ==
    {Resp("401", -1, 0, {}), Resp("429", -1, 0, {})}
        \cup {Resp("status", s, 0, {}) : s \in {403, 503}}
        \cup {Resp("exception", -1, 0, e) : e \in ExceptionTexts}
        \cup {Resp("badShape", -1, 0, {})}
        \cup Texts

-----------------------------------------------------------------------------
(* generateCode: the providers array.                                       *)

Keys == {"", "key"}

Settings ==
    [geminiApiKey : Keys, groqApiKey : Keys, huggingfaceApiKey : Keys,
     llmApiKey : Keys, llmProvider : {"gemini", "groq", "huggingface"}]

ToLowerCase(name) ==
    CASE name = "Gemini"      -> "gemini"
      [] name = "Groq"        -> "groq"
      [] name = "HuggingFace" -> "huggingface"

Provider(name, key) == [name |-> name, key |-> key]

\* the pushes of lines 247-252
PushProviders(s) ==
    LET a == IF s.geminiApiKey # "" THEN <<Provider("Gemini", s.geminiApiKey)>> ELSE <<>>
        b == IF s.groqApiKey # "" THEN Append(a, Provider("Groq", s.groqApiKey)) ELSE a
        c == IF s.huggingfaceApiKey # ""
                 THEN Append(b, Provider("HuggingFace", s.huggingfaceApiKey)) ELSE b
    IN  IF s.llmApiKey # "" /\ Len(c) = 0
            THEN <<Provider("Gemini", s.llmApiKey)>> ELSE c

\* a slip: the signs of the comparator are exchanged
CompareReversed(a, b, preferred) ==
    IF ToLowerCase(a.name) = preferred THEN 1
    ELSE IF ToLowerCase(b.name) = preferred THEN -1
    ELSE 0

\* the comparator of providers.sort: negative puts a first, positive puts b first
Compare(a, b, preferred) ==
    IF ToLowerCase(a.name) = preferred THEN -1
    ELSE IF ToLowerCase(b.name) = preferred THEN 1
    ELSE 0

\* Array.prototype.sort is stable: insertion of each element before the
\* first element it compares less than, among those already placed
RECURSIVE InsertSorted(_, _, _)
InsertSorted(sorted, x, preferred) ==
    IF sorted = <<>> THEN <<x>>
    ELSE LET last == sorted[Len(sorted)]
         IN  IF Compare(x, last, preferred) < 0
                 THEN Append(InsertSorted(SubSeq(sorted, 1, Len(sorted) - 1), x, preferred), last)
                 ELSE Append(sorted, x)

RECURSIVE SortProviders(_, _)
SortProviders(ps, preferred) ==
    IF ps = <<>> THEN <<>>
    ELSE InsertSorted(SortProviders(SubSeq(ps, 1, Len(ps) - 1), preferred),
                      ps[Len(ps)], preferred)

BuildProviders(s) == SortProviders(PushProviders(s), s.llmProvider)

GEMINI_MODELS == <<"gemini-2.5-flash", "gemini-2.5-flash-lite">>

GROQ_MODELS == <<"llama-3.3-70b-versatile", "llama-3.1-70b-versatile", "mixtral-8x7b-32768">>

-----------------------------------------------------------------------------
(* generateCode: the end of a request.                                      *)

NoOutcome == [kind |-> "none", err |-> "", len |-> 0, lines |-> 0, from |-> ""]

Thrown(err) == [kind |-> "thrown", err |-> err, len |-> 0, lines |-> 0, from |-> ""]

Returned(text, name) ==
    [kind |-> "returned", err |-> "", len |-> text.n, lines |-> text.lines, from |-> name]

\* lines 284-305: the one error thrown when the loop ends
Classify(errs) ==
    IF \/ SummaryIncludes(errs, "quota exceeded")
       \/ SummaryIncludes(errs, "rate limit")
       \/ SummaryIncludes(errs, "429")
        THEN "RateLimit"          \* 'AI rate limit reached. Options: ...'
    ELSE IF \/ SummaryIncludes(errs, "invalid")
            \/ SummaryIncludes(errs, "401")
            \/ SummaryIncludes(errs, "403")
        THEN "InvalidKey"         \* 'Your AI API key appears to be invalid or expired. ...'
    ELSE "Generic"                \* 'Code generation failed. Details: ...'

\* the response r has arrived at the adapter being awaited: it is the
\* answer to the request of this attempt on this model; when the handling of
\* it has called the next adapter, none of that adapter's requests is answered
Handled(r) ==
    /\ resp' = [k |-> r.k, n |-> r.n, ext |-> r.ext, by |-> cur, m |-> mdl,
                att |-> attempt]
    /\ answered' = IF cur' # cur THEN 0 ELSE answered + 1
    /\ only429' = (only429 /\ r.k = "429")

\* a fetch is issued for model m of provider i
IssueFetch(i, m) ==
    /\ gpc' = "fetch"
    /\ reqs' = Append(reqs, m)

\* provider.fn(systemPrompt, userPrompt, provider.key): each adapter runs
\* synchronously up to its first fetch
Invoke(i, errs) ==
    /\ cur' = i
    /\ mdl' = 1
    /\ attempt' = 0
    /\ lastError' = NoMsg
    /\ errors' = errs
    /\ sleeps' = <<>>
    /\ invoked' = Append(invoked, providers[i].name)
    /\ gpc' = "fetch"
    /\ reqs' = <<1>>
    /\ UNCHANGED <<settings, providers, outcome, accepted>>

\* a slip: when every provider has failed a canned template is returned
RaiseTemplate(errs) ==
    /\ gpc' = "done"
    /\ errors' = errs
    /\ outcome' = [kind |-> "returned", err |-> "", len |-> 2000, lines |-> 300,
                   from |-> "template"]
    /\ sleeps' = <<>>
    /\ UNCHANGED <<settings, providers, cur, mdl, attempt, lastError, invoked,
                   accepted, reqs>>

\* the loop of line 266 is over: lines 284-305
Raise(errs) ==
    /\ gpc' = "done"
    /\ errors' = errs
    /\ outcome' = Thrown(Classify(errs))
    /\ sleeps' = <<>>
    /\ UNCHANGED <<settings, providers, cur, mdl, attempt, lastError, invoked,
                   accepted, reqs>>

\* the loop goes on to the next provider, or ends
NextProvider(errs) ==
    IF cur < Len(providers) THEN Invoke(cur + 1, errs) ELSE Raise(errs)

\* a slip: the accepted text is kept but the loop is not left
ReturnCodeKeepsGoing(text) ==
    /\ outcome' = Returned(text, providers[cur].name)
    /\ accepted' = Append(accepted, providers[cur].name)
    /\ IF cur < Len(providers)
           THEN /\ cur' = cur + 1
                /\ mdl' = 1
                /\ attempt' = 0
                /\ lastError' = NoMsg
                /\ sleeps' = <<>>
                /\ invoked' = Append(invoked, providers[cur + 1].name)
                /\ gpc' = "fetch"
                /\ reqs' = <<1>>
                /\ UNCHANGED <<settings, providers, errors>>
           ELSE /\ gpc' = "done"
                /\ UNCHANGED <<settings, providers, cur, mdl, attempt, lastError,
                               errors, sleeps, invoked, reqs>>

\* line 275: return code
ReturnCode(text) ==
    /\ gpc' = "done"
    /\ outcome' = Returned(text, providers[cur].name)
    /\ accepted' = Append(accepted, providers[cur].name)
    /\ UNCHANGED <<settings, providers, cur, mdl, attempt, lastError, errors,
                   sleeps, invoked, reqs>>

\* a slip: whatever text the adapter returns is returned, as an earlier
\* generateCode did
AdapterReturnsAnyText(text) ==
    IF text.n > 0
        THEN ReturnCode(text)
        ELSE NextProvider(Append(errors, Msg("Insufficient", -1, {})))

\* lines 268-277: the adapter returned text
AdapterReturns(text) ==
    IF text.n > 0 /\ text.n > 500
        THEN IF text.lines < 200
                 THEN NextProvider(Append(errors, Msg("TooFewLines", text.lines, {})))
                 ELSE ReturnCode(text)
        ELSE NextProvider(Append(errors, Msg("Insufficient", -1, {})))

\* a slip: an invalid key ends the request at once
AdapterThrowsFatalAuth(msg) ==
    IF Includes(msg, "invalid")
        THEN Raise(Append(errors, msg))
        ELSE NextProvider(Append(errors, msg))

\* lines 278-281: the adapter threw
AdapterThrows(msg) == NextProvider(Append(errors, msg))

-----------------------------------------------------------------------------
(* generateWithGemini, lines 308-406.                                       *)

\* the for-loop over GEMINI_MODELS moves on (a break, or the attempts are
\* used up); after the last model, line 405 throws lastError
GeminiNextModel(le) ==
    IF mdl < Len(GEMINI_MODELS)
        THEN /\ mdl' = mdl + 1
             /\ attempt' = 0
             /\ lastError' = le
             /\ IssueFetch(cur, mdl + 1)
             /\ UNCHANGED <<settings, providers, cur, errors, sleeps, outcome,
                            invoked, accepted>>
        ELSE AdapterThrows(le)

\* a slip: the next request is issued without awaiting the sleeps
GeminiContinueNoWait(le, waits) ==
    /\ attempt' = attempt + 1
    /\ lastError' = le
    /\ sleeps' = waits \o <<3000 * (attempt + 1)>>
    /\ IssueFetch(cur, mdl)
    /\ UNCHANGED <<settings, providers, cur, mdl, errors, outcome, invoked,
                   accepted>>

\* a slip: a model that cannot answer now is given up at once
GeminiContinueNextModel(le, waits) == GeminiNextModel(le)

\* `continue` in the attempt loop: the waits already asked for, then the
\* 3000 * attempt sleep of line 316 at the top of the next iteration
GeminiContinue(le, waits) ==
    /\ attempt' = attempt + 1
    /\ lastError' = le
    /\ sleeps' = waits \o <<3000 * (attempt + 1)>>
    /\ gpc' = "sleep"
    /\ UNCHANGED <<settings, providers, cur, mdl, errors, outcome, invoked,
                   accepted, reqs>>

\* a slip: the attempt loop runs once more after an exception
GeminiCatchFourAttempts(e) ==
    IF Includes(e, "invalid") \/ Includes(e, "blocked") \/ Includes(e, "safety")
        THEN AdapterThrows(e)
    ELSE IF attempt < 3
        THEN GeminiContinue(e, <<>>)
        ELSE GeminiNextModel(e)

\* the catch of lines 395-401
GeminiCatch(e) ==
    IF Includes(e, "invalid") \/ Includes(e, "blocked") \/ Includes(e, "safety")
        THEN AdapterThrows(e)
    ELSE IF attempt < 2
        THEN GeminiContinue(e, <<>>)
        ELSE GeminiNextModel(e)

Min(a, b) == IF a < b THEN a ELSE b

\* lines 331-332
WaitMs(hint, att) == IF hint >= 0 THEN hint * 1000 ELSE 5000 * (att + 1)

\* the response to the request in flight arrives (lines 320-401)
GeminiOnResponse(r) ==
    CASE r.k = "429" ->
            IF attempt < 2
                THEN GeminiContinue(Msg("GeminiRateLimited", -1, {}),
                                    <<Min(WaitMs(r.n, attempt), 15000)>>)
                ELSE GeminiNextModel(Msg("GeminiRateLimited", -1, {}))
      [] r.k = "400" -> GeminiNextModel(Msg("GeminiBadRequest", -1, r.ext))
      [] r.k = "403" -> GeminiCatch(Msg("GeminiKey403", -1, {}))
      [] r.k = "401" -> GeminiCatch(Msg("GeminiKey401", -1, {}))
      [] r.k = "status" -> GeminiNextModel(Msg("GeminiHttp", r.n, {}))
      [] r.k = "dataError" -> GeminiNextModel(Msg("GeminiDataError", -1, r.ext))
      [] r.k = "blockReason" -> GeminiCatch(Msg("GeminiBlocked", -1, {}))
      [] r.k = "noCandidates" -> GeminiNextModel(Msg("GeminiNoCandidates", -1, {}))
      [] r.k = "SAFETY" -> GeminiCatch(Msg("GeminiSafety", -1, {}))
      [] r.k = "text" ->
            IF r.n < 500
                THEN GeminiNextModel(Msg("GeminiTooLittle", r.n, {}))
                ELSE AdapterReturns(r)
      [] r.k = "exception" -> GeminiCatch(Msg("Exception", -1, r.ext))

generateWithGemini ==
    /\ gpc = "fetch"
    /\ providers[cur].name = "Gemini"
    /\ \E r \in GeminiResponses : GeminiOnResponse(r) /\ Handled(r)

\* a setTimeout of generateWithGemini elapses; after the last one the
\* request of line 320 is issued
geminiSleepElapsed ==
    /\ gpc = "sleep"
    /\ providers[cur].name = "Gemini"
    /\ sleeps' = Tail(sleeps)
    /\ IF Tail(sleeps) = <<>>
           THEN IssueFetch(cur, mdl)
           ELSE UNCHANGED <<gpc, reqs>>
    /\ UNCHANGED <<settings, providers, cur, mdl, attempt, lastError, errors,
                   outcome, invoked, accepted, answered, resp, only429>>

-----------------------------------------------------------------------------
(* generateWithGroq, lines 408-463.                                         *)

\* the for-loop over models moves on, no setTimeout pending; after the last
\* model, line 462
GroqNextModel(le) ==
    IF mdl < Len(GROQ_MODELS)
        THEN /\ mdl' = mdl + 1
             /\ lastError' = le
             /\ sleeps' = <<>>
             /\ IssueFetch(cur, mdl + 1)
             /\ UNCHANGED <<settings, providers, cur, attempt, errors, outcome,
                            invoked, accepted>>
        ELSE AdapterThrows(le)

\* the catch of lines 456-459
GroqCatch(e) ==
    IF Includes(e, "invalid") THEN AdapterThrows(e) ELSE GroqNextModel(e)

GroqOnResponse(r) ==
    CASE r.k = "429" ->
            \* lines 431-435: sleep 3000 ms, then continue with the next model
            /\ lastError' = Msg("GroqRateLimit", -1, {})
            /\ sleeps' = <<3000>>
            /\ gpc' = "sleep"
            /\ UNCHANGED <<settings, providers, cur, mdl, attempt, errors,
                           outcome, invoked, accepted, reqs>>
      [] r.k = "401" -> GroqCatch(Msg("GroqKey401", -1, {}))
      [] r.k = "status" -> GroqNextModel(Msg("GroqHttp", r.n, {}))
      [] r.k = "text" ->
            IF r.n < 500
                THEN GroqNextModel(Msg("GroqTooShort", -1, {}))
                ELSE AdapterReturns(r)
      [] r.k = "exception" -> GroqCatch(Msg("Exception", -1, r.ext))

generateWithGroq ==
    /\ gpc = "fetch"
    /\ providers[cur].name = "Groq"
    /\ \E r \in GroqResponses : GroqOnResponse(r) /\ Handled(r)

\* the 3000 ms sleep of line 433 elapses: `continue`
groqSleepElapsed ==
    /\ gpc = "sleep"
    /\ providers[cur].name = "Groq"
    /\ GroqNextModel(lastError)
    /\ answered' = IF cur' # cur THEN 0 ELSE answered
    /\ UNCHANGED <<resp, only429>>

-----------------------------------------------------------------------------
(* generateWithHuggingFace, lines 465-508: one request, no try/catch.       *)

HuggingFaceOnResponse(r) ==
    CASE r.k = "401" -> AdapterThrows(Msg("HFKey401", -1, {}))
      [] r.k = "429" -> AdapterThrows(Msg("HFRateLimit", -1, {}))
      [] r.k = "status" ->
            IF r.n \in {410, 404, 503}
                THEN AdapterThrows(Msg("HFUnavailable", -1, {}))
                ELSE AdapterThrows(Msg("HFHttp", r.n, {}))
      [] r.k = "text" ->
            IF r.n < 100
                THEN AdapterThrows(Msg("HFTooLittle", -1, {}))
                ELSE AdapterReturns(r)
      [] r.k = "badShape" -> AdapterThrows(Msg("HFUnexpected", -1, {}))
      [] r.k = "exception" -> AdapterThrows(Msg("Exception", -1, r.ext))

generateWithHuggingFace ==
    /\ gpc = "fetch"
    /\ providers[cur].name = "HuggingFace"
    /\ \E r \in HuggingFaceResponses : HuggingFaceOnResponse(r) /\ Handled(r)

-----------------------------------------------------------------------------
(* generateCode, lines 223-306: the call, up to the first await.            *)

generateCode ==
    /\ gpc = "idle"
    /\ providers' = BuildProviders(settings)
    /\ IF Len(providers') = 0
           THEN /\ gpc' = "done"
                /\ outcome' = Thrown("NoKeys")
                /\ UNCHANGED <<cur, mdl, attempt, lastError, errors, sleeps,
                               invoked, accepted, reqs>>
           ELSE /\ cur' = 1
                /\ mdl' = 1
                /\ attempt' = 0
                /\ lastError' = NoMsg
                /\ errors' = <<>>
                /\ sleeps' = <<>>
                /\ invoked' = <<providers'[1].name>>
                /\ gpc' = "fetch"
                /\ reqs' = <<1>>
                /\ UNCHANGED <<outcome, accepted>>
    /\ UNCHANGED <<settings, answered, resp, only429>>

-----------------------------------------------------------------------------
(* The publish pipeline: lib/github-service.ts createRepo and pushCode, as  *)
(* handlePushToGithub calls them.  All callers publish to the same target   *)
(* (same account, same slug).                                               *)

Procs == {1, 2}

\* a project, of which the id and the content (rev) matter here
Project(i, r) == [id |-> i, rev |-> r]

ProjectIds == {1, 2, 3}

NoCall == [kind |-> "none", id |-> 0, rev |-> 0]

\* what can be stored before the calls: nothing, or saved projects
StoredLists ==
    {<<>>, <<Project(1, 0)>>, <<Project(3, 0)>>, <<Project(2, 0), Project(1, 0)>>,
     <<Project(3, 0), Project(2, 0), Project(1, 0)>>}

\* lines 419-428: the manifest of one attempt
FILES ==
    <<"App.js", "package.json", "app.json", "eas.json", "babel.config.js",
      "metro.config.js", ".gitignore", ".github/workflows/eas-build.yml">>

\* a response: k is "ok" (response.ok), "notok" or "exception" (fetch or
\* the body parse threw); fault tells a response the repository's own state
\* does not call for (bad token, rate limit, server or network trouble)
HttpResp(k, status, msg, fault) ==
    [k |-> k, status |-> status, msg |-> msg, fault |-> fault]

\* the faults any request may meet on a faulty network
Faults ==
    IF net = "faulty"
        THEN {HttpResp("notok", 500, "", TRUE), HttpResp("exception", 0, "", TRUE)}
        ELSE {}

\* GET /repos/{owner}/{slug}
RepoGetResponses(rem) ==
    IF rem.exists
        THEN {HttpResp("ok", 200, "", FALSE)} \cup Faults
        ELSE {HttpResp("notok", 404, "Not Found", FALSE)} \cup Faults

\* the refusals of POST /user/repos that createRepo tells apart
CreateFaults ==
    IF net = "faulty"
        THEN {HttpResp("notok", 403, "", TRUE), HttpResp("notok", 401, "", TRUE),
              HttpResp("notok", 404, "Resource not accessible", TRUE),
              HttpResp("notok", 422, "name is invalid", TRUE)}
        ELSE {}

\* POST /user/repos
RepoCreateResponses(rem) ==
    (IF rem.exists
         THEN {HttpResp("notok", 422, "name already exists", FALSE)}
         ELSE {HttpResp("ok", 201, "", FALSE)})
        \cup Faults \cup CreateFaults

\* GET .../git/ref/heads/main
RefGetResponses(rem) ==
    IF rem.exists /\ rem.ready
        THEN {HttpResp("ok", 200, "", FALSE)} \cup Faults
        ELSE {HttpResp("notok", 404, "Not Found", FALSE)} \cup Faults

\* POST .../git/blobs, .../git/trees, .../git/commits
ObjectCreateResponses(rem) ==
    IF rem.exists
        THEN {HttpResp("ok", 201, "", FALSE)} \cup Faults
        ELSE {HttpResp("notok", 404, "Not Found", FALSE)} \cup Faults

\* is commit a reachable from commit c through parents
RECURSIVE IsAncestor(_, _, _)
IsAncestor(a, c, cs) ==
    IF c = a THEN TRUE
    ELSE IF c = 0 THEN FALSE
    ELSE IsAncestor(a, cs[c].parent, cs)

\* a slip: the update is sent with force, the remote takes any commit
RefUpdateResponsesForced(rem, sha, cs) ==
    (IF rem.exists /\ rem.ready
         THEN {HttpResp("ok", 200, "", FALSE)}
         ELSE {HttpResp("notok", 422, "Reference does not exist", FALSE)})
        \cup Faults

\* PATCH .../git/refs/heads/main with {sha}: no force, so the remote takes
\* fast-forwards only
RefUpdateResponses(rem, sha, cs) ==
    (IF rem.exists /\ rem.ready /\ IsAncestor(rem.head, sha, cs)
         THEN {HttpResp("ok", 200, "", FALSE)}
         ELSE {HttpResp("notok", 422, "Update is not a fast forward", FALSE)})
        \cup Faults
        \cup (IF net = "faulty"
                  THEN {HttpResp("notok", 403, "", TRUE),
                        HttpResp("notok", 404, "Resource not accessible", TRUE)}
                  ELSE {})

\* what a reader of the repository can see
Visible(rem) == <<rem.exists, rem.name, rem.ready, rem.head>>

\* getSlug(name), line 352: every caller publishes the same project name
Slug == "slug"

NoRepo == [kind |-> "none", name |-> "", full_name |-> <<>>, html_url |-> <<>>, err |-> ""]

\* the repository object the remote sends, of which GitHubRepo keeps
\* name, full_name and html_url (line 345; line 398 returns the whole object,
\* which holds them too)
Descriptor(rem) ==
    [kind |-> "ok", name |-> rem.name, full_name |-> <<"owner", rem.name>>,
     html_url |-> <<"https://github.com", "owner", rem.name>>, err |-> ""]

RepoError(err) ==
    [kind |-> "error", name |-> "", full_name |-> <<>>, html_url |-> <<>>, err |-> err]

NoPush == [retry |-> 0, latestSha |-> -1, blobs |-> <<>>, treeSha |-> -1, commitSha |-> -1]

NoResult == [kind |-> "none", err |-> "", at |-> ""]

NoHist ==
    [calls |-> <<>>, delays |-> <<>>, changes |-> {}, faults |-> {},
     failed |-> <<>>, existed |-> FALSE]

OkResp == HttpResp("ok", 200, "", FALSE)

\* the history of caller p after the step it was suspended at, answered by
\* r: the requests it issued next, the sleep that elapsed, whether the step
\* changed what a reader of the repository sees, whether r was a fault,
\* whether r was a failure (and then the status and message the remote sent)
Note(p, r, issued, slept) ==
    hist' = [hist EXCEPT ![p] =
                [calls |-> @.calls \o issued,
                 delays |-> @.delays \o slept,
                 changes |-> IF Visible(remote') # Visible(remote)
                                THEN @.changes \cup {ppc[p]} ELSE @.changes,
                 faults |-> IF r.fault THEN @.faults \cup {ppc[p]} ELSE @.faults,
                 failed |-> IF r.k # "ok"
                                THEN Append(@.failed, [step |-> ppc[p], k |-> r.k,
                                                       status |-> r.status, msg |-> r.msg])
                                ELSE @.failed,
                 existed |-> @.existed]]

\* the catch of handlePushToGithub (part_006 lines 132-138), and any throw
\* of pushCode: the run ends with the error
Fail(p, err) ==
    /\ ppc' = [ppc EXCEPT ![p] = "done"]
    /\ result' = [result EXCEPT ![p] = [kind |-> "error", err |-> err, at |-> ppc[p]]]

\* part_006 line 119, github-service.ts lines 406-430: pushCode is called and
\* runs to its first await, which is getOrCreateExpoProjectId when the
\* caller's settings hold an Expo token and user name
CallPushCode(p) ==
    /\ \E expoConfigured \in BOOLEAN :
          ppc' = [ppc EXCEPT ![p] = IF expoConfigured THEN "expo" ELSE "sleep1500"]
    /\ push' = [push EXCEPT ![p] = NoPush]
    /\ UNCHANGED result

-----------------------------------------------------------------------------
(* createRepo, lines 351-399, and checkRepoExists, lines 338-349.           *)

\* handlePushToGithub calls createRepo, which awaits checkRepoExists
handlePushToGithub(p) ==
    /\ ppc[p] = "idle"
    /\ ppc' = [ppc EXCEPT ![p] = "check"]
    /\ hist' = [hist EXCEPT ![p] =
                   [@ EXCEPT !.calls = <<"checkRepoExists">>,
                             !.existed = remote.exists]]
    /\ UNCHANGED <<net, remote, trees, commits, repo, push, result>>

\* a slip: the result of the existence check is not used
OnRepoCheckedIgnored(p, r) ==
    /\ ppc' = [ppc EXCEPT ![p] = "create"]
    /\ Note(p, r, <<"createRepo">>, <<>>)
    /\ UNCHANGED <<repo, push, result>>

\* lines 354-370: the answer to the existence check
OnRepoChecked(p, r) ==
    IF r.k = "ok"
        THEN /\ repo' = [repo EXCEPT ![p] = Descriptor(remote)]
             /\ CallPushCode(p)
             /\ Note(p, r, <<>>, <<>>)
        ELSE /\ ppc' = [ppc EXCEPT ![p] = "create"]
             /\ Note(p, r, <<"createRepo">>, <<>>)
             /\ UNCHANGED <<repo, push, result>>

createRepoChecked(p) ==
    /\ ppc[p] = "check"
    /\ UNCHANGED <<net, remote, trees, commits>>
    /\ \E r \in RepoGetResponses(remote) : OnRepoChecked(p, r)

\* createRepo throws err: part_006 lines 110-116
CreateRepoThrows(p, err, alreadyExists) ==
    /\ repo' = [repo EXCEPT ![p] = RepoError(err)]
    /\ IF alreadyExists
           THEN CallPushCode(p)                \* 'Repository exists, updating code...'
           ELSE Fail(p, err) /\ UNCHANGED push

\* a slip: a 422 is thrown without the second existence check
OnRepoCreatedNoRecheck(p, r) ==
    CASE r.k = "ok" ->
            /\ repo' = [repo EXCEPT ![p] = Descriptor(remote')]
            /\ CallPushCode(p)
            /\ Note(p, r, <<>>, <<>>)
      [] r.k = "exception" ->
            /\ CreateRepoThrows(p, "Exception", FALSE)
            /\ Note(p, r, <<>>, <<>>)
      [] r.k = "notok" ->
            IF r.msg = "Resource not accessible" \/ r.status = 403
                THEN /\ CreateRepoThrows(p, "TokenCantCreate", FALSE)
                     /\ Note(p, r, <<>>, <<>>)
            ELSE IF r.status = 401
                THEN /\ CreateRepoThrows(p, "TokenInvalid", FALSE)
                     /\ Note(p, r, <<>>, <<>>)
            ELSE IF r.status = 422
                THEN /\ CreateRepoThrows(p, "Rejected", FALSE)
                     /\ Note(p, r, <<>>, <<>>)
            ELSE /\ CreateRepoThrows(p, "CreateFailed", FALSE)
                 /\ Note(p, r, <<>>, <<>>)

\* lines 372-398: the answer to the creation request
OnRepoCreated(p, r) ==
    CASE r.k = "ok" ->
            /\ repo' = [repo EXCEPT ![p] = Descriptor(remote')]
            /\ CallPushCode(p)
            /\ Note(p, r, <<>>, <<>>)
      [] r.k = "exception" ->
            /\ CreateRepoThrows(p, "Exception", FALSE)
            /\ Note(p, r, <<>>, <<>>)
      [] r.k = "notok" ->
            IF r.msg = "Resource not accessible" \/ r.status = 403
                THEN /\ CreateRepoThrows(p, "TokenCantCreate", FALSE)
                     /\ Note(p, r, <<>>, <<>>)
            ELSE IF r.status = 401
                THEN /\ CreateRepoThrows(p, "TokenInvalid", FALSE)
                     /\ Note(p, r, <<>>, <<>>)
            ELSE IF r.status = 422
                THEN IF r.msg = "name already exists"
                         THEN /\ ppc' = [ppc EXCEPT ![p] = "recheck"]
                              /\ Note(p, r, <<"checkRepoExists">>, <<>>)
                              /\ UNCHANGED <<repo, push, result>>
                         ELSE /\ CreateRepoThrows(p, "Rejected", FALSE)
                              /\ Note(p, r, <<>>, <<>>)
            ELSE /\ CreateRepoThrows(p, "CreateFailed", FALSE)
                 /\ Note(p, r, <<>>, <<>>)

\* the remote creates the repository when it answers 201; auto_init makes
\* the main branch, which may not be readable at once
createRepoCreated(p) ==
    /\ ppc[p] = "create"
    /\ \E r \in RepoCreateResponses(remote) :
          /\ IF r.k = "ok"
                 THEN \E rdy \in BOOLEAN :
                          remote' = [exists |-> TRUE, name |-> Slug, ready |-> rdy, head |-> 0]
                 ELSE UNCHANGED remote
          /\ OnRepoCreated(p, r)
    /\ UNCHANGED <<net, trees, commits>>

\* lines 390-393: the existence check after 'name already exists'
OnRepoRechecked(p, r) ==
    IF r.k = "ok"
        THEN /\ repo' = [repo EXCEPT ![p] = Descriptor(remote)]
             /\ CallPushCode(p)
        ELSE CreateRepoThrows(p, "RejectedNameExists", TRUE)

createRepoRechecked(p) ==
    /\ ppc[p] = "recheck"
    /\ UNCHANGED <<net, remote, trees, commits>>
    /\ \E r \in RepoGetResponses(remote) :
          /\ OnRepoRechecked(p, r)
          /\ Note(p, r, <<>>, <<>>)

\* auto_init finishes: heads/main becomes readable
remoteBranchReady ==
    /\ remote.exists
    /\ ~remote.ready
    /\ remote' = [remote EXCEPT !.ready = TRUE]
    /\ UNCHANGED <<net, trees, commits, ppc, repo, push, result, hist>>

-----------------------------------------------------------------------------
(* pushCode, lines 401-517.                                                 *)

\* pushCode throws: handlePushToGithub's catch ends the run
PushThrows(p, err) ==
    /\ Fail(p, err)
    /\ UNCHANGED <<repo, push>>

\* lines 414-417: getOrCreateExpoProjectId returns or throws; then the
\* manifest is built and the 1500 ms sleep of line 430 begins
pushExpoProject(p) ==
    /\ ppc[p] = "expo"
    /\ UNCHANGED <<net, remote, trees, commits>>
    /\ \E r \in {OkResp} \cup Faults :
          /\ IF r.k = "ok"
                 THEN /\ ppc' = [ppc EXCEPT ![p] = "sleep1500"]
                      /\ UNCHANGED <<repo, push, result>>
                 ELSE PushThrows(p, "ExpoFailed")
          /\ Note(p, r, <<>>, <<>>)

\* line 430 elapses; lines 432-434: the first read of the branch head
pushSleepElapsed(p) ==
    /\ ppc[p] = "sleep1500"
    /\ UNCHANGED <<net, remote, trees, commits>>
    /\ ppc' = [ppc EXCEPT ![p] = "readRef"]
    /\ Note(p, OkResp, <<"readRef">>, <<1500>>)
    /\ UNCHANGED <<repo, push, result>>

\* a slip: the retry test is off by one, so a fourth read is made
OnRefReadOnceMore(p, r, head) ==
    CASE r.k = "ok" ->
            /\ push' = [push EXCEPT ![p].latestSha = head]
            /\ ppc' = [ppc EXCEPT ![p] = "blob"]
            /\ Note(p, r, <<"blob">>, <<>>)
            /\ UNCHANGED <<repo, result>>
      [] r.k = "notok" ->
            IF push[p].retry < 3
                THEN /\ ppc' = [ppc EXCEPT ![p] = "sleep2000"]
                     /\ Note(p, r, <<>>, <<>>)
                     /\ UNCHANGED <<repo, push, result>>
                ELSE /\ PushThrows(p, "RepositoryNotReady")
                     /\ Note(p, r, <<>>, <<>>)
      [] r.k = "exception" ->
            /\ PushThrows(p, "Exception")
            /\ Note(p, r, <<>>, <<>>)

\* lines 435-447: the answer to the read of heads/main
OnRefRead(p, r, head) ==
    CASE r.k = "ok" ->
            /\ push' = [push EXCEPT ![p].latestSha = head]
            /\ ppc' = [ppc EXCEPT ![p] = "blob"]
            /\ Note(p, r, <<"blob">>, <<>>)
            /\ UNCHANGED <<repo, result>>
      [] r.k = "notok" ->
            IF push[p].retry < 2
                THEN /\ ppc' = [ppc EXCEPT ![p] = "sleep2000"]
                     /\ Note(p, r, <<>>, <<>>)
                     /\ UNCHANGED <<repo, push, result>>
                ELSE /\ PushThrows(p, "RepositoryNotReady")
                     /\ Note(p, r, <<>>, <<>>)
      [] r.k = "exception" ->
            /\ PushThrows(p, "Exception")
            /\ Note(p, r, <<>>, <<>>)

pushRefRead(p) ==
    /\ ppc[p] = "readRef"
    /\ UNCHANGED <<net, remote, trees, commits>>
    /\ \E r \in RefGetResponses(remote) : OnRefRead(p, r, remote.head)

\* line 440 elapses: retry++, and the next read is issued
pushRetrySleepElapsed(p) ==
    /\ ppc[p] = "sleep2000"
    /\ UNCHANGED <<net, remote, trees, commits>>
    /\ push' = [push EXCEPT ![p].retry = @ + 1]
    /\ ppc' = [ppc EXCEPT ![p] = "readRef"]
    /\ Note(p, OkResp, <<"readRef">>, <<2000>>)
    /\ UNCHANGED <<repo, result>>

\* a slip: blobRes.ok is not tested, a refused upload is pushed like any other
OnBlobUploadedUnchecked(p, r) ==
    CASE r.k \in {"ok", "notok"} ->
            LET file == FILES[Len(push[p].blobs) + 1]
                more == Len(push[p].blobs) + 1 < Len(FILES)
            IN  /\ push' = [push EXCEPT ![p].blobs = Append(@, file)]
                /\ ppc' = [ppc EXCEPT ![p] = IF more THEN "blob" ELSE "tree"]
                /\ Note(p, r, IF more THEN <<"blob">> ELSE <<"tree">>, <<>>)
                /\ UNCHANGED <<repo, result>>
      [] r.k = "exception" ->
            /\ PushThrows(p, "Exception")
            /\ Note(p, r, <<>>, <<>>)

\* a slip: a refused upload ends the loop, and the tree is built from the
\* blobs uploaded so far
OnBlobUploadedBreaks(p, r) ==
    CASE r.k = "ok" ->
            LET file == FILES[Len(push[p].blobs) + 1]
                more == Len(push[p].blobs) + 1 < Len(FILES)
            IN  /\ push' = [push EXCEPT ![p].blobs = Append(@, file)]
                /\ ppc' = [ppc EXCEPT ![p] = IF more THEN "blob" ELSE "tree"]
                /\ Note(p, r, IF more THEN <<"blob">> ELSE <<"tree">>, <<>>)
                /\ UNCHANGED <<repo, result>>
      [] r.k = "notok" ->
            /\ ppc' = [ppc EXCEPT ![p] = "tree"]
            /\ Note(p, r, <<"tree">>, <<>>)
            /\ UNCHANGED <<repo, push, result>>
      [] r.k = "exception" ->
            /\ PushThrows(p, "Exception")
            /\ Note(p, r, <<>>, <<>>)

\* a slip: a refused upload is tried a second time
OnBlobUploadedRetries(p, r) ==
    CASE r.k = "ok" ->
            LET file == FILES[Len(push[p].blobs) + 1]
                more == Len(push[p].blobs) + 1 < Len(FILES)
            IN  /\ push' = [push EXCEPT ![p].blobs = Append(@, file)]
                /\ ppc' = [ppc EXCEPT ![p] = IF more THEN "blob" ELSE "tree"]
                /\ Note(p, r, IF more THEN <<"blob">> ELSE <<"tree">>, <<>>)
                /\ UNCHANGED <<repo, result>>
      [] r.k = "notok" ->
            IF \A i \in 1..Len(hist[p].failed) : hist[p].failed[i].step # "blob"
                THEN /\ Note(p, r, <<"blob">>, <<>>)
                     /\ UNCHANGED <<ppc, repo, push, result>>
                ELSE /\ PushThrows(p, "UploadFailed")
                     /\ Note(p, r, <<>>, <<>>)
      [] r.k = "exception" ->
            /\ PushThrows(p, "Exception")
            /\ Note(p, r, <<>>, <<>>)

\* lines 450-463: the answer to the upload of one file
OnBlobUploaded(p, r) ==
    CASE r.k = "ok" ->
            LET file == FILES[Len(push[p].blobs) + 1]
                more == Len(push[p].blobs) + 1 < Len(FILES)
            IN  /\ push' = [push EXCEPT ![p].blobs = Append(@, file)]
                /\ ppc' = [ppc EXCEPT ![p] = IF more THEN "blob" ELSE "tree"]
                /\ Note(p, r, IF more THEN <<"blob">> ELSE <<"tree">>, <<>>)
                /\ UNCHANGED <<repo, result>>
      [] r.k = "notok" ->
            /\ PushThrows(p, "UploadFailed")
            /\ Note(p, r, <<>>, <<>>)
      [] r.k = "exception" ->
            /\ PushThrows(p, "Exception")
            /\ Note(p, r, <<>>, <<>>)

\* a slip: each file is written through the contents API, as an earlier
\* pushCode did, so that every upload commits to main at once
pushBlobUploadedContentsApi(p) ==
    /\ ppc[p] = "blob"
    /\ UNCHANGED <<net, trees>>
    /\ \E r \in ObjectCreateResponses(remote) :
          /\ IF r.k = "ok"
                 THEN /\ commits' = Append(commits, [tree |-> 0, parent |-> remote.head,
                                                     by |-> p])
                      /\ remote' = [remote EXCEPT !.head = Len(commits) + 1]
                 ELSE UNCHANGED <<remote, commits>>
          /\ OnBlobUploaded(p, r)

\* the remote stores the blob when it answers 201: nothing a reader sees
pushBlobUploaded(p) ==
    /\ ppc[p] = "blob"
    /\ UNCHANGED <<net, remote, trees, commits>>
    /\ \E r \in ObjectCreateResponses(remote) : OnBlobUploaded(p, r)

\* a slip: treeRes.ok is not tested, the commit is asked for all the same
OnTreeCreatedUnchecked(p, r) ==
    CASE r.k = "ok" ->
            /\ trees' = Append(trees, [base |-> push[p].latestSha,
                                       paths |-> push[p].blobs, by |-> p])
            /\ push' = [push EXCEPT ![p].treeSha = Len(trees) + 1]
            /\ ppc' = [ppc EXCEPT ![p] = "commit"]
            /\ Note(p, r, <<"commit">>, <<>>)
            /\ UNCHANGED <<repo, result>>
      [] r.k = "notok" ->
            /\ ppc' = [ppc EXCEPT ![p] = "commit"]
            /\ Note(p, r, <<"commit">>, <<>>)
            /\ UNCHANGED <<repo, push, result, trees>>
      [] r.k = "exception" ->
            /\ PushThrows(p, "Exception")
            /\ Note(p, r, <<>>, <<>>)
            /\ UNCHANGED trees

\* lines 465-483: the tree request lists every uploaded blob, on base latestSha
OnTreeCreated(p, r) ==
    CASE r.k = "ok" ->
            /\ trees' = Append(trees, [base |-> push[p].latestSha,
                                       paths |-> push[p].blobs, by |-> p])
            /\ push' = [push EXCEPT ![p].treeSha = Len(trees) + 1]
            /\ ppc' = [ppc EXCEPT ![p] = "commit"]
            /\ Note(p, r, <<"commit">>, <<>>)
            /\ UNCHANGED <<repo, result>>
      [] r.k = "notok" ->
            /\ PushThrows(p, "TreeFailed")
            /\ Note(p, r, <<>>, <<>>)
            /\ UNCHANGED trees
      [] r.k = "exception" ->
            /\ PushThrows(p, "Exception")
            /\ Note(p, r, <<>>, <<>>)
            /\ UNCHANGED trees

pushTreeCreated(p) ==
    /\ ppc[p] = "tree"
    /\ UNCHANGED <<net, remote, commits>>
    /\ \E r \in ObjectCreateResponses(remote) : OnTreeCreated(p, r)

\* a slip: the commit request names no parent
OnCommitCreatedNoParent(p, r) ==
    CASE r.k = "ok" ->
            /\ commits' = Append(commits, [tree |-> push[p].treeSha,
                                           parent |-> 0, by |-> p])
            /\ push' = [push EXCEPT ![p].commitSha = Len(commits) + 1]
            /\ ppc' = [ppc EXCEPT ![p] = "updateRef"]
            /\ Note(p, r, <<"updateRef">>, <<>>)
            /\ UNCHANGED <<repo, result>>
      [] r.k = "notok" ->
            /\ PushThrows(p, "CommitFailed")
            /\ Note(p, r, <<>>, <<>>)
            /\ UNCHANGED commits
      [] r.k = "exception" ->
            /\ PushThrows(p, "Exception")
            /\ Note(p, r, <<>>, <<>>)
            /\ UNCHANGED commits

\* lines 485-499: the commit has the tree just built and parent latestSha
OnCommitCreated(p, r) ==
    CASE r.k = "ok" ->
            /\ commits' = Append(commits, [tree |-> push[p].treeSha,
                                           parent |-> push[p].latestSha, by |-> p])
            /\ push' = [push EXCEPT ![p].commitSha = Len(commits) + 1]
            /\ ppc' = [ppc EXCEPT ![p] = "updateRef"]
            /\ Note(p, r, <<"updateRef">>, <<>>)
            /\ UNCHANGED <<repo, result>>
      [] r.k = "notok" ->
            /\ PushThrows(p, "CommitFailed")
            /\ Note(p, r, <<>>, <<>>)
            /\ UNCHANGED commits
      [] r.k = "exception" ->
            /\ PushThrows(p, "Exception")
            /\ Note(p, r, <<>>, <<>>)
            /\ UNCHANGED commits

pushCommitCreated(p) ==
    /\ ppc[p] = "commit"
    /\ UNCHANGED <<net, remote, trees>>
    /\ \E r \in ObjectCreateResponses(remote) : OnCommitCreated(p, r)

\* lines 507-508: errMsg is the message of the response body, and
\* 'HTTP <status>' when the body has none (or cannot be parsed); -1 and ""
\* stand for the part errMsg does not hold
ErrMsg(r) ==
    IF r.msg # ""
        THEN [status |-> -1, msg |-> r.msg]
        ELSE [status |-> r.status, msg |-> ""]

\* lines 501-517: the answer to the ref update; part_006 lines 121-129
OnRefUpdated(p, r) ==
    CASE r.k = "ok" ->
            /\ ppc' = [ppc EXCEPT ![p] = "done"]
            /\ result' = [result EXCEPT ![p] = [kind |-> "ok", err |-> "", at |-> ""]]
            /\ UNCHANGED <<repo, push>>
      [] r.k = "notok" ->
            IF r.msg = "Resource not accessible" \/ r.status = 403
                THEN PushThrows(p, "CantPush")
                ELSE PushThrows(p, "PushFailed")
      [] r.k = "exception" -> PushThrows(p, "Exception")

\* the remote moves heads/main when it answers 200
pushRefUpdated(p) ==
    /\ ppc[p] = "updateRef"
    /\ UNCHANGED <<net, trees, commits>>
    /\ \E r \in RefUpdateResponses(remote, push[p].commitSha, commits) :
          /\ IF r.k = "ok"
                 THEN remote' = [remote EXCEPT !.head = push[p].commitSha]
                 ELSE UNCHANGED remote
          /\ OnRefUpdated(p, r)
          /\ Note(p, r, <<>>, <<>>)

PubIdle ==
    /\ trees = <<>>
    /\ commits = <<>>
    /\ repo = [p \in Procs |-> NoRepo]
    /\ push = [p \in Procs |-> NoPush]
    /\ result = [p \in Procs |-> NoResult]
    /\ hist = [p \in Procs |-> NoHist]

PubInit ==
    /\ remote \in {[exists |-> FALSE, name |-> "", ready |-> FALSE, head |-> 0],
                   [exists |-> TRUE, name |-> Slug, ready |-> FALSE, head |-> 0],
                   [exists |-> TRUE, name |-> Slug, ready |-> TRUE, head |-> 0]}
    /\ PubIdle

\* one caller publishes
PubInitOne ==
    /\ net = "faulty"
    /\ PubInit
    /\ ppc = [p \in Procs |-> IF p = 1 THEN "idle" ELSE "off"]

\* every caller publishes, to the same target; the remote answers every
\* request as the state of the repository calls for
PubInitAll ==
    /\ net = "reliable"
    /\ PubInit
    /\ ppc = [p \in Procs |-> "idle"]

GenInit ==
    /\ settings \in Settings
    /\ providers = <<>>
    /\ gpc = "idle"
    /\ cur = 0
    /\ mdl = 0
    /\ attempt = 0
    /\ lastError = NoMsg
    /\ errors = <<>>
    /\ sleeps = <<>>
    /\ outcome = NoOutcome
    /\ invoked = <<>>
    /\ accepted = <<>>
    /\ reqs = <<>>
    /\ answered = 0
    /\ resp = NoResp
    /\ only429 = TRUE

GenIdle ==
    /\ settings = [geminiApiKey |-> "", groqApiKey |-> "", huggingfaceApiKey |-> "",
                   llmApiKey |-> "", llmProvider |-> "gemini"]
    /\ providers = <<>>
    /\ gpc = "idle"
    /\ cur = 0
    /\ mdl = 0
    /\ attempt = 0
    /\ lastError = NoMsg
    /\ errors = <<>>
    /\ sleeps = <<>>
    /\ outcome = NoOutcome
    /\ invoked = <<>>
    /\ accepted = <<>>
    /\ reqs = <<>>
    /\ answered = 0
    /\ resp = NoResp
    /\ only429 = TRUE

\* no text is being cleaned
RepOff ==
    /\ rpc = "off"
    /\ input = <<>>
    /\ repaired = <<>>
    /\ cleaned = <<>>
    /\ recleaned = <<>>

\* no generateClarifications request is made
ClarOff ==
    /\ cpc = "off"
    /\ cproviders = <<>>
    /\ ccur = 0
    /\ cresult = [kind |-> "none", items |-> <<>>, from |-> ""]
    /\ cinvoked = <<>>
    /\ cseen = <<>>
    /\ canswer = [k |-> "none", items |-> <<>>]

\* no storage call is made
StoreOff ==
    /\ stored = <<>>
    /\ spc = [p \in Procs |-> "off"]
    /\ sop = [p \in Procs |-> NoCall]
    /\ slocal = [p \in Procs |-> <<>>]

\* one generateCode request
Init ==
    /\ GenInit
    /\ ClarOff
    /\ RepOff
    /\ StoreOff
    /\ remote = [exists |-> FALSE, name |-> "", ready |-> FALSE, head |-> 0]
    /\ ppc = [p \in Procs |-> "off"]
    /\ net = "reliable"
    /\ PubIdle

Next ==
    \/ generateCode /\ UNCHANGED <<pubVars, clarVars, repVars, storeVars>>
    \/ generateWithGemini /\ UNCHANGED <<pubVars, clarVars, repVars, storeVars>>
    \/ geminiSleepElapsed /\ UNCHANGED <<pubVars, clarVars, repVars, storeVars>>
    \/ generateWithGroq /\ UNCHANGED <<pubVars, clarVars, repVars, storeVars>>
    \/ groqSleepElapsed /\ UNCHANGED <<pubVars, clarVars, repVars, storeVars>>
    \/ generateWithHuggingFace /\ UNCHANGED <<pubVars, clarVars, repVars, storeVars>>

Spec == Init /\ [][Next]_vars

\* one generateCode request whose awaits all settle: every fetch is answered
\* (by a response or by a rejection) and every setTimeout elapses
FairSpec == Spec /\ WF_vars(Next)

\* one publish run on the target repository
PublishInit == PubInitOne /\ GenIdle /\ ClarOff /\ RepOff /\ StoreOff

PublishNext ==
    \/ \E p \in Procs : handlePushToGithub(p) /\ UNCHANGED <<genVars, clarVars, repVars, storeVars>>
    \/ \E p \in Procs : createRepoChecked(p) /\ UNCHANGED <<genVars, clarVars, repVars, storeVars>>
    \/ \E p \in Procs : createRepoCreated(p) /\ UNCHANGED <<genVars, clarVars, repVars, storeVars>>
    \/ \E p \in Procs : createRepoRechecked(p) /\ UNCHANGED <<genVars, clarVars, repVars, storeVars>>
    \/ remoteBranchReady /\ UNCHANGED <<genVars, clarVars, repVars, storeVars>>
    \/ \E p \in Procs : pushExpoProject(p) /\ UNCHANGED <<genVars, clarVars, repVars, storeVars>>
    \/ \E p \in Procs : pushSleepElapsed(p) /\ UNCHANGED <<genVars, clarVars, repVars, storeVars>>
    \/ \E p \in Procs : pushRefRead(p) /\ UNCHANGED <<genVars, clarVars, repVars, storeVars>>
    \/ \E p \in Procs : pushRetrySleepElapsed(p) /\ UNCHANGED <<genVars, clarVars, repVars, storeVars>>
    \/ \E p \in Procs : pushBlobUploaded(p) /\ UNCHANGED <<genVars, clarVars, repVars, storeVars>>
    \/ \E p \in Procs : pushTreeCreated(p) /\ UNCHANGED <<genVars, clarVars, repVars, storeVars>>
    \/ \E p \in Procs : pushCommitCreated(p) /\ UNCHANGED <<genVars, clarVars, repVars, storeVars>>
    \/ \E p \in Procs : pushRefUpdated(p) /\ UNCHANGED <<genVars, clarVars, repVars, storeVars>>

PublishSpec == PublishInit /\ [][PublishNext]_vars

\* the publish runs of two callers on the same target repository
ConcurrentInit == PubInitAll /\ GenIdle /\ ClarOff /\ RepOff /\ StoreOff

ConcurrentSpec == ConcurrentInit /\ [][PublishNext]_vars

-----------------------------------------------------------------------------
(* generateClarifications, lines 111-166, with generateWithGeminiLite        *)
(* (185-199) and generateWithGroqFast (201-221).                            *)

\* a question/options pair of the result
Pair(q, opts) == [question |-> q, options |-> opts]

\* getDefaultClarifications, lines 168-183
DefaultClarifications ==
    <<Pair("What should users see on the home screen?",
           <<"List of items with search", "Dashboard with stats and quick actions",
             "Feed with cards and filters", "Map or visual overview">>),
      Pair("What key features should the app include?",
           <<"Favorites, ratings, and reviews", "Booking or scheduling system",
             "Categories with filtering and sorting", "History tracking and analytics">>),
      Pair("What extra features would make this app stand out?",
           <<"Price comparison and deals", "User profiles with activity history",
             "Notifications and reminders", "Social sharing and recommendations">>)>>

\* an element of the parsed array: null, or an object whose question and
\* options may be absent (question "": absent; hasOptions FALSE: absent)
Item(isNull, q, hasOptions, opts) ==
    [isNull |-> isNull, question |-> q, hasOptions |-> hasOptions, options |-> opts]

GoodItem == Item(FALSE, "Q", TRUE, <<"a", "b", "c">>)

WideItem == Item(FALSE, "Q", TRUE, <<"a", "b", "c", "d", "e">>)

NoQuestionItem == Item(FALSE, "", TRUE, <<"a", "b", "c">>)

NoOptionsItem == Item(FALSE, "Q", FALSE, <<>>)

NullItem == Item(TRUE, "", FALSE, <<>>)

\* "options": [] is present, and an empty array is truthy
EmptyOptionsItem == Item(FALSE, "Q", TRUE, <<>>)

\* the arrays a backend's text can parse to
ClarifyArrays ==
    {<<GoodItem>>, <<GoodItem, GoodItem>>, <<GoodItem, WideItem, GoodItem>>,
     <<GoodItem, GoodItem, GoodItem, GoodItem, GoodItem>>,
     <<NoQuestionItem, GoodItem>>, <<NoOptionsItem, GoodItem>>,
     <<NullItem, GoodItem>>, <<GoodItem, NullItem>>,
     <<GoodItem, NoOptionsItem>>, <<GoodItem, NoQuestionItem>>,
     <<EmptyOptionsItem, GoodItem>>}

\* the parts of a text around its square brackets: "words" holds no bracket,
\* "aside" is bracketed words such as [see below], "array" is the JSON text
\* of an array of elements
Words == [t |-> "words", items |-> <<>>]

Aside == [t |-> "aside", items |-> <<>>]

ArrayText(a) == [t |-> "array", items |-> a]

\* texts in which an array of two good elements comes with other text
ClarifyTexts ==
    {<<ArrayText(<<GoodItem, GoodItem>>), Words>>,
     <<Words, ArrayText(<<GoodItem, GoodItem>>), Words>>,
     <<ArrayText(<<GoodItem, GoodItem>>), Words, Aside>>,
     <<ArrayText(<<GoodItem, GoodItem>>), ArrayText(<<GoodItem, GoodItem>>)>>,
     <<Aside, Words, ArrayText(<<GoodItem, GoodItem>>)>>}

\* cleaned.match(/\[[\s\S]*\]/), line 151: the quantifier is greedy, the
\* match runs from the first [ of the text to its last ]; <<>> for null
JsonMatch(text) ==
    LET brackets == {i \in 1..Len(text) : text[i].t # "words"}
    IN  IF brackets = {}
            THEN <<>>
            ELSE SubSeq(text, CHOOSE i \in brackets : \A j \in brackets : i <= j,
                              CHOOSE i \in brackets : \A j \in brackets : i >= j)

\* JSON.parse(jsonMatch[0]), line 153: only the text of one array, with
\* nothing after it, parses
ParsesToArray(m) == Len(m) = 1 /\ m[1].t = "array"

\* the array an answer parses to
Parsed(r) == IF r.k = "text" THEN JsonMatch(r.items)[1].items ELSE r.items

\* what awaiting provider.fn gives: the adapter throws (HTTP error, network
\* exception, and for generateWithHuggingFace any of its throws), or returns
\* text that holds no [...] ("prose", the empty text included), text whose
\* [...] is not JSON ("badJson"), or text whose [...] parses to an array
ClarifyAnswers ==
    {[k |-> "throw", items |-> <<>>], [k |-> "prose", items |-> <<>>],
     [k |-> "badJson", items |-> <<>>]}
        \cup {[k |-> "array", items |-> a] : a \in ClarifyArrays}
        \cup {[k |-> "text", items |-> t] : t \in ClarifyTexts}

Take(q, n) == SubSeq(q, 1, IF Len(q) < n THEN Len(q) ELSE n)

\* String(q.question): the text of undefined when the question is absent
StringOf(q) == IF q = "" THEN "undefined" ELSE q

\* lines 155-158: the map over parsed.slice(0, 4)
MapQuestions(items) ==
    [i \in 1..Len(Take(items, 4)) |->
        Pair(StringOf(items[i].question),
             IF items[i].hasOptions THEN Take(items[i].options, 4) ELSE <<>>)]

\* lines 150-159: what the try block makes of the answer: "accepted" (the
\* return of line 155), "rejected" (continue, or the if of line 154 is
\* false) or "caught" (something threw and line 160 caught it)
ArrayVerdict(items) ==
    IF Len(items) < 2 THEN "rejected"
    ELSE IF items[1].isNull THEN "caught"                  \* parsed[0].question throws
    ELSE IF items[1].question = "" \/ ~items[1].hasOptions THEN "rejected"
    ELSE IF \E i \in 1..Len(Take(items, 4)) : items[i].isNull
             THEN "caught"                                 \* q.question throws in map
    ELSE "accepted"

ClarifyVerdict(r) ==
    CASE r.k = "throw" -> "caught"
      [] r.k = "prose" -> "rejected"                       \* line 152
      [] r.k = "badJson" -> "caught"                       \* JSON.parse throws
      [] r.k = "array" -> ArrayVerdict(r.items)
      [] r.k = "text" ->
            IF JsonMatch(r.items) = <<>> THEN "rejected"   \* line 152
            ELSE IF ~ParsesToArray(JsonMatch(r.items)) THEN "caught"
            ELSE ArrayVerdict(JsonMatch(r.items)[1].items)

\* the providers array of lines 127-141
ClarifyProviders(s) == SortProviders(PushProviders(s), s.llmProvider)

ClarifyInvoke(i, seen) ==
    /\ cpc' = "fetch"
    /\ ccur' = i
    /\ cinvoked' = Append(cinvoked, cproviders[i].name)
    /\ cseen' = seen
    /\ UNCHANGED <<cproviders, cresult>>

\* line 165
ClarifyDefault(seen) ==
    /\ cpc' = "done"
    /\ cseen' = seen
    /\ cresult' = [kind |-> "default", items |-> DefaultClarifications, from |-> ""]
    /\ UNCHANGED <<cproviders, ccur, cinvoked>>

\* a slip: the default list is returned as soon as one provider fails
ClarifyNextGivesUp(seen) == ClarifyDefault(seen)

\* the loop of line 147 goes on, or ends
ClarifyNext(seen) ==
    IF ccur < Len(cproviders) THEN ClarifyInvoke(ccur + 1, seen) ELSE ClarifyDefault(seen)

\* the answer of the provider being awaited arrives: lines 149-162
ClarifyOnAnswer(r) ==
    IF ClarifyVerdict(r) = "accepted"
        THEN /\ cpc' = "done"
             /\ cseen' = Append(cseen, "accepted")
             /\ cresult' = [kind |-> "questions", items |-> MapQuestions(Parsed(r)),
                            from |-> cproviders[ccur].name]
             /\ UNCHANGED <<cproviders, ccur, cinvoked>>
        ELSE ClarifyNext(Append(cseen, ClarifyVerdict(r)))

generateWithGeminiLite ==
    /\ cpc = "fetch"
    /\ cproviders[ccur].name = "Gemini"
    /\ \E r \in ClarifyAnswers : ClarifyOnAnswer(r) /\ canswer' = r

generateWithGroqFast ==
    /\ cpc = "fetch"
    /\ cproviders[ccur].name = "Groq"
    /\ \E r \in ClarifyAnswers : ClarifyOnAnswer(r) /\ canswer' = r

clarifyWithHuggingFace ==
    /\ cpc = "fetch"
    /\ cproviders[ccur].name = "HuggingFace"
    /\ \E r \in ClarifyAnswers : ClarifyOnAnswer(r) /\ canswer' = r

\* the call, up to the first await (lines 111-149)
generateClarifications ==
    /\ cpc = "idle"
    /\ cproviders' = ClarifyProviders(settings)
    /\ IF Len(cproviders') = 0
           THEN /\ cpc' = "done"
                /\ cresult' = [kind |-> "thrown", items |-> <<>>, from |-> ""]
                /\ UNCHANGED <<ccur, cinvoked, cseen>>
           ELSE /\ cpc' = "fetch"
                /\ ccur' = 1
                /\ cinvoked' = <<cproviders'[1].name>>
                /\ UNCHANGED <<cresult, cseen>>
    /\ UNCHANGED canswer

\* one generateClarifications request
ClarifyInit ==
    /\ GenInit
    /\ cpc = "idle"
    /\ cproviders = <<>>
    /\ ccur = 0
    /\ cresult = [kind |-> "none", items |-> <<>>, from |-> ""]
    /\ cinvoked = <<>>
    /\ cseen = <<>>
    /\ canswer = [k |-> "none", items |-> <<>>]
    /\ remote = [exists |-> FALSE, name |-> "", ready |-> FALSE, head |-> 0]
    /\ ppc = [p \in Procs |-> "off"]
    /\ net = "reliable"
    /\ PubIdle
    /\ RepOff
    /\ StoreOff

ClarifyNextStep ==
    \/ generateClarifications /\ UNCHANGED <<genVars, pubVars, repVars, storeVars>>
    \/ generateWithGeminiLite /\ UNCHANGED <<genVars, pubVars, repVars, storeVars>>
    \/ generateWithGroqFast /\ UNCHANGED <<genVars, pubVars, repVars, storeVars>>
    \/ clarifyWithHuggingFace /\ UNCHANGED <<genVars, pubVars, repVars, storeVars>>

ClarifySpec == ClarifyInit /\ [][ClarifyNextStep]_vars

-----------------------------------------------------------------------------
(* fixCommonSyntaxErrors, lines 537-602.  A text is a sequence of            *)
(* characters; a character is a one-character string, and a character       *)
(* outside ASCII is written by its code point ("U+2014").                   *)

DigitChars == {"0", "1", "2", "3", "4", "5", "6", "7", "8", "9"}

LetterChars ==
    {"a", "b", "c", "d", "e", "f", "g", "h", "i", "j", "k", "l", "m", "n", "o", "p", "q", "r", "s", "t", "u", "v", "w", "x", "y", "z",
     "A", "B", "C", "D", "E", "F", "G", "H", "I", "J", "K", "L", "M", "N", "O", "P", "Q", "R", "S", "T", "U", "V", "W", "X", "Y", "Z"}

\* \w
WordChars == LetterChars \cup DigitChars \cup {"_"}

\* \s, as far as the texts here go
SpaceChars == {" ", "\t", "\n", "\r"}

\* the characters `.` does not match and `^`, `$` of a /m pattern look for
LineEnds == {"\n", "\r"}

\* the template quote, written by its code point
Backtick == "U+0060"

\* [^\x00-\x7F]
NonAsciiChars == {"U+2014", "U+00E9"}

\* the character at index i, "" outside the text
At(s, i) == IF i >= 1 /\ i <= Len(s) THEN s[i] ELSE ""

\* the index of the last character of the longest run of characters of cls
\* that starts at i (i - 1 when s[i] is not in cls): what cls* matches at i
RECURSIVE RunEnd(_, _, _)
RunEnd(s, i, cls) == IF At(s, i) \in cls THEN RunEnd(s, i + 1, cls) ELSE i - 1

\* the literal w is in s at index i
StartsAt(s, i, w) ==
    /\ i >= 1
    /\ i + Len(w) - 1 <= Len(s)
    /\ SubSeq(s, i, i + Len(w) - 1) = w

\* (w1|w2|...)\b at index i: the index of the last character of the first
\* alternative that is there and ends at a word boundary, 0 when none is
RECURSIVE AltEnd(_, _, _)
AltEnd(s, i, alts) ==
    IF alts = <<>> THEN 0
    ELSE IF StartsAt(s, i, Head(alts)) /\ At(s, i + Len(Head(alts))) \notin WordChars
        THEN i + Len(Head(alts)) - 1
        ELSE AltEnd(s, i, Tail(alts))

\* line 540: px|em|rem|vh|vw|pt|dp|sp
Units ==
    <<<<"p", "x">>, <<"e", "m">>, <<"r", "e", "m">>, <<"v", "h">>, <<"v", "w">>, <<"p", "t">>, <<"d", "p">>, <<"s", "p">>>>

\* line 545: seconds?|minutes?|hours?|items?|times?|days?, the optional s
\* being tried first
Durations ==
    <<<<"s", "e", "c", "o", "n", "d", "s">>,
      <<"s", "e", "c", "o", "n", "d">>,
      <<"m", "i", "n", "u", "t", "e", "s">>,
      <<"m", "i", "n", "u", "t", "e">>,
      <<"h", "o", "u", "r", "s">>, <<"h", "o", "u", "r">>,
      <<"i", "t", "e", "m", "s">>, <<"i", "t", "e", "m">>,
      <<"t", "i", "m", "e", "s">>, <<"t", "i", "m", "e">>,
      <<"d", "a", "y", "s">>, <<"d", "a", "y">>>>

\* a slip: the comma goes only when the closer follows it at once
TrailingCommaEndAdjacent(s, i) ==
    IF s[i] = "," /\ At(s, i + 1) \in {"}", "]"} THEN i + 1 ELSE 0

\* line 538, /,(\s*[}\]])/ at index i: the index of the closer, 0: no match
TrailingCommaEnd(s, i) ==
    LET j == RunEnd(s, i + 1, SpaceChars) + 1
    IN  IF s[i] = "," /\ At(s, j) \in {"}", "]"} THEN j ELSE 0

\* line 540, /(\d+)(px|em|rem|vh|vw|pt|dp|sp)\b/ at index i
UnitEnd(s, i) ==
    IF s[i] \in DigitChars
        THEN AltEnd(s, RunEnd(s, i, DigitChars) + 1, Units)
        ELSE 0

\* line 542, /:\s*(\d+)%\s*([,;}])/ at index i
PercentEnd(s, i) ==
    LET j == RunEnd(s, i + 1, SpaceChars) + 1      \* the first digit
        k == RunEnd(s, j, DigitChars)               \* the last digit
        m == RunEnd(s, k + 2, SpaceChars) + 1       \* the closer
    IN  IF /\ s[i] = ":"
           /\ k >= j
           /\ At(s, k + 1) = "%"
           /\ At(s, m) \in {",", ";", "}"}
            THEN m ELSE 0

\* line 545, /(?<![a-zA-Z_$"'`])(\d+)\s+(seconds?|...)\b/ at index i
DurationEnd(s, i) ==
    LET k == RunEnd(s, i, DigitChars)
        m == RunEnd(s, k + 1, SpaceChars)
    IN  IF /\ s[i] \in DigitChars
           /\ At(s, i - 1) \notin (LetterChars \cup {"_", "$", "\"", "'", Backtick})
           /\ m > k
            THEN AltEnd(s, m + 1, Durations)
            ELSE 0

\* lines 547 and 550, /{\s*(\d+[a-zA-Z]+)\s*:/ and /,\s*(\d+[a-zA-Z]+)\s*:/
\* at index i: lead is "{" or ","
DigitKeyEnd(s, i, lead) ==
    LET j == RunEnd(s, i + 1, SpaceChars) + 1      \* the first digit of the key
        k == RunEnd(s, j, DigitChars)
        l == RunEnd(s, k + 1, LetterChars)          \* the last letter of the key
        m == RunEnd(s, l + 1, SpaceChars) + 1       \* the colon
    IN  IF s[i] = lead /\ k >= j /\ l > k /\ At(s, m) = ":" THEN m ELSE 0

\* line 554, /\/\/.*$/m at index i
CommentEnd(s, i) ==
    IF StartsAt(s, i, <<"/", "/">>)
        THEN RunEnd(s, i + 2, (WordChars \cup NonAsciiChars \cup SpaceChars
                               \cup {"{", "}", "(", ")", "[", "]", ",", ";", ":", "'", "\"",
                                     Backtick, "%", "$", "/", "\\", ".", "=", "<", ">"})
                              \ LineEnds)
        ELSE 0

\* where the match of a pass that starts at index i ends, 0 when there is none
MatchEnd(pass, s, i) ==
    CASE pass = "trailingComma" -> TrailingCommaEnd(s, i)
      [] pass = "unit" -> UnitEnd(s, i)
      [] pass = "percent" -> PercentEnd(s, i)
      [] pass = "duration" -> DurationEnd(s, i)
      [] pass = "braceKey" -> DigitKeyEnd(s, i, "{")
      [] pass = "commaKey" -> DigitKeyEnd(s, i, ",")
      [] pass = "comment" -> CommentEnd(s, i)

\* what the match s[i..e] of a pass is replaced by
Replacement(pass, s, i, e) ==
    CASE pass = "trailingComma" -> SubSeq(s, i + 1, e)                       \* '$1'
      [] pass \in {"unit", "duration"} -> SubSeq(s, i, RunEnd(s, i, DigitChars))  \* '$1'
      [] pass = "percent" ->                                                  \* ': $1$2'
            LET j == RunEnd(s, i + 1, SpaceChars) + 1
            IN  <<":", " ">> \o SubSeq(s, j, RunEnd(s, j, DigitChars)) \o <<s[e]>>
      [] pass \in {"braceKey", "commaKey"} ->                                 \* `{ '${key}':`
            LET j == RunEnd(s, i + 1, SpaceChars) + 1
                l == RunEnd(s, RunEnd(s, j, DigitChars) + 1, LetterChars)
            IN  <<s[i], " ", "'">> \o SubSeq(s, j, l) \o <<"'", ":">>
      [] pass = "comment" ->
            SelectSeq(SubSeq(s, i, e), LAMBDA c : c \notin NonAsciiChars)

\* code.replace(/.../g, ...): the matches are looked for from left to right
\* in the text as it was, each after the end of the one before
RECURSIVE ReplaceAll(_, _, _)
ReplaceAll(pass, s, i) ==
    IF i > Len(s) THEN <<>>
    ELSE LET e == MatchEnd(pass, s, i)
         IN  IF e > 0
                 THEN Replacement(pass, s, i, e) \o ReplaceAll(pass, s, e + 1)
                 ELSE <<s[i]>> \o ReplaceAll(pass, s, i + 1)

\* lines 538-556; line 543 replaces each '<digits>%' by itself
FixPatterns(code) ==
    LET a == ReplaceAll("trailingComma", code, 1)
        b == ReplaceAll("unit", a, 1)
        c == ReplaceAll("percent", b, 1)
        d == ReplaceAll("duration", c, 1)
        e == ReplaceAll("braceKey", d, 1)
        f == ReplaceAll("commaKey", e, 1)
    IN  ReplaceAll("comment", f, 1)

\* lines 558-563
ScanStart ==
    [braceCount |-> 0, parenCount |-> 0, bracketCount |-> 0,
     inString |-> FALSE, stringChar |-> "", inTemplate |-> FALSE]

\* lines 566-585, one turn of the loop: ch is code[i], prev is code[i - 1]
ScanStep(st, ch, prev) ==
    IF st.inString
        THEN IF ch = st.stringChar /\ prev # "\\"
                 THEN [st EXCEPT !.inString = FALSE]
                 ELSE st
    ELSE IF st.inTemplate
        THEN IF ch = Backtick /\ prev # "\\"
                 THEN [st EXCEPT !.inTemplate = FALSE]
                 ELSE st
    ELSE IF ch \in {"\"", "'"}
        THEN [st EXCEPT !.inString = TRUE, !.stringChar = ch]
    ELSE IF ch = Backtick THEN [st EXCEPT !.inTemplate = TRUE]
    ELSE IF ch = "{" THEN [st EXCEPT !.braceCount = @ + 1]
    ELSE IF ch = "}" THEN [st EXCEPT !.braceCount = @ - 1]
    ELSE IF ch = "(" THEN [st EXCEPT !.parenCount = @ + 1]
    ELSE IF ch = ")" THEN [st EXCEPT !.parenCount = @ - 1]
    ELSE IF ch = "[" THEN [st EXCEPT !.bracketCount = @ + 1]
    ELSE IF ch = "]" THEN [st EXCEPT !.bracketCount = @ - 1]
    ELSE st

\* lines 565-586: the loop from index i on, st being what it has so far
RECURSIVE Scan(_, _, _)
Scan(code, i, st) ==
    IF i > Len(code) THEN st
    ELSE Scan(code, i + 1, ScanStep(st, code[i], At(code, i - 1)))

\* n times the text w
RECURSIVE Repeat(_, _)
Repeat(w, n) == IF n <= 0 THEN <<>> ELSE w \o Repeat(w, n - 1)

\* a slip: the closers are appended in the opposite order
AppendClosersReversed(code) ==
    LET st == Scan(code, 1, ScanStart)
    IN  code \o Repeat(<<"]">>, st.bracketCount)
             \o Repeat(<<")">>, st.parenCount)
             \o Repeat(<<"\n", "}">>, st.braceCount)

\* lines 588-590
AppendClosers(code) ==
    LET st == Scan(code, 1, ScanStart)
    IN  code \o Repeat(<<"\n", "}">>, st.braceCount)
             \o Repeat(<<")">>, st.parenCount)
             \o Repeat(<<"]">>, st.bracketCount)

ExportWord == <<"e", "x", "p", "o", "r", "t">>

DefaultWord == <<"d", "e", "f", "a", "u", "l", "t">>

AppWord == <<"A", "p", "p">>

ExportDefaultApp == ExportWord \o <<" ">> \o DefaultWord \o <<" ">> \o AppWord \o <<";">>

\* /export\s+default/ at index i: the index of the t of default, 0: no match
ExportDefaultEnd(s, i) ==
    LET j == RunEnd(s, i + Len(ExportWord), SpaceChars) + 1
    IN  IF /\ StartsAt(s, i, ExportWord)
           /\ j > i + Len(ExportWord)
           /\ StartsAt(s, j, DefaultWord)
            THEN j + Len(DefaultWord) - 1 ELSE 0

\* line 592, /export\s+default\s+App\s*;?\s*\n[\s\S]*$/ matches at index i:
\* a line feed is in the white space after App, or after the semicolon
\* that follows that white space
ExportAppAt(s, i) ==
    LET d == ExportDefaultEnd(s, i)
        j == RunEnd(s, d + 1, SpaceChars) + 1       \* the A of App
        k == j + Len(AppWord)                       \* after App
        m == RunEnd(s, k, SpaceChars)
        n == RunEnd(s, m + 2, SpaceChars)
    IN  /\ d > 0
        /\ j > d + 1
        /\ StartsAt(s, j, AppWord)
        /\ \/ \E x \in k..m : s[x] = "\n"
           \/ At(s, m + 1) = ";" /\ \E x \in (m + 2)..n : s[x] = "\n"

\* line 592: the text from the first such export statement to the end is
\* replaced by 'export default App;'
TruncateAfterExport(code) ==
    LET at == {i \in 1..Len(code) : ExportAppAt(code, i)}
    IN  IF at = {} THEN code
        ELSE LET first == CHOOSE i \in at : \A j \in at : i <= j
             IN  SubSeq(code, 1, first - 1) \o ExportDefaultApp

\* line 594, code.match(/export\s+default\s/)
HasExportDefault(code) ==
    \E i \in 1..Len(code) :
        /\ ExportDefaultEnd(code, i) > 0
        /\ At(code, ExportDefaultEnd(code, i) + 1) \in SpaceChars

\* line 595, code.match(/(?:const|function|class)\s+(App)\b/)
DeclaresApp(code) ==
    \E i \in 1..Len(code) : \E w \in {<<"c", "o", "n", "s", "t">>,
                                      <<"f", "u", "n", "c", "t", "i", "o", "n">>,
                                      <<"c", "l", "a", "s", "s">>} :
        LET j == RunEnd(code, i + Len(w), SpaceChars) + 1
        IN  /\ StartsAt(code, i, w)
            /\ j > i + Len(w)
            /\ StartsAt(code, j, AppWord)
            /\ At(code, j + Len(AppWord)) \notin WordChars

\* lines 594-599
AppendExport(code) ==
    IF ~HasExportDefault(code) /\ DeclaresApp(code)
        THEN code \o <<"\n", "\n">> \o ExportDefaultApp
        ELSE code

\* lines 537-602
FixCommonSyntaxErrors(code) ==
    AppendExport(TruncateAfterExport(AppendClosers(FixPatterns(code))))

-----------------------------------------------------------------------------
(* cleanCodeResponse, lines 510-535.                                        *)

Fence == <<Backtick, Backtick, Backtick>>

\* line 511: javascript|jsx|js|tsx|react
FenceLanguages ==
    <<<<"j", "a", "v", "a", "s", "c", "r", "i", "p", "t">>,
      <<"j", "s", "x">>, <<"j", "s">>, <<"t", "s", "x">>,
      <<"r", "e", "a", "c", "t">>>>

\* the index of the last character of the first language named at index i,
\* i - 1 when none is: what (?:javascript|jsx|js|tsx|react)? matches, the
\* white space after it taking whatever follows
RECURSIVE LanguageEnd(_, _, _)
LanguageEnd(s, i, alts) ==
    IF alts = <<>> THEN i - 1
    ELSE IF StartsAt(s, i, Head(alts)) THEN i + Len(Head(alts)) - 1
    ELSE LanguageEnd(s, i, Tail(alts))

\* line 511, /^```(?:javascript|jsx|js|tsx|react)?\s*\n?/m at index i
FenceOpenEnd(s, i) ==
    IF /\ StartsAt(s, i, Fence)
       /\ (i = 1 \/ s[i - 1] \in LineEnds)
        THEN RunEnd(s, LanguageEnd(s, i + 3, FenceLanguages) + 1, SpaceChars)
        ELSE 0

\* line 512, /```\s*$/m at index i: the white space reaches the end of the
\* text, or stops before the last line end in it
FenceCloseEnd(s, i) ==
    LET m == RunEnd(s, i + 3, SpaceChars)
        stops == {x \in (i + 2)..(m - 1) : s[x + 1] \in LineEnds}
    IN  IF ~StartsAt(s, i, Fence) THEN 0
        ELSE IF m = Len(s) THEN m
        ELSE IF stops = {} THEN 0
        ELSE CHOOSE x \in stops : \A y \in stops : y <= x

\* text.replace(/.../gm, ''), for the two patterns of the fences
RECURSIVE StripFences(_, _, _)
StripFences(open, s, i) ==
    IF i > Len(s) THEN <<>>
    ELSE LET e == IF open THEN FenceOpenEnd(s, i) ELSE FenceCloseEnd(s, i)
         IN  IF e > 0
                 THEN StripFences(open, s, e + 1)
                 ELSE <<s[i]>> \o StripFences(open, s, i + 1)

ImportWord == <<"i", "m", "p", "o", "r", "t">>

ReactWord == <<"R", "e", "a", "c", "t">>

\* /import\s+React/ at index i
ImportReactAt(s, i) ==
    LET j == RunEnd(s, i + Len(ImportWord), SpaceChars) + 1
    IN  /\ StartsAt(s, i, ImportWord)
        /\ j > i + Len(ImportWord)
        /\ StartsAt(s, j, ReactWord)

\* line 514, /^[\s\S]*?(import\s+React)/m replaced by '$1': what is before
\* the first import of React goes
DropBeforeImport(s) ==
    LET at == {i \in 1..Len(s) : ImportReactAt(s, i)}
    IN  IF at = {} THEN s
        ELSE SubSeq(s, CHOOSE i \in at : \A j \in at : i <= j, Len(s))

\* text.lastIndexOf(w), counted from 1: 0 when w is not in the text
LastIndexOf(s, w) ==
    LET at == {i \in 1..Len(s) : StartsAt(s, i, w)}
    IN  IF at = {} THEN 0 ELSE CHOOSE i \in at : \A j \in at : j <= i

\* text.trim()
RECURSIVE TrimStart(_)
TrimStart(s) == IF s # <<>> /\ Head(s) \in SpaceChars THEN TrimStart(Tail(s)) ELSE s

RECURSIVE TrimEnd(_)
TrimEnd(s) ==
    IF s # <<>> /\ s[Len(s)] \in SpaceChars THEN TrimEnd(SubSeq(s, 1, Len(s) - 1)) ELSE s

Trim(s) == TrimStart(TrimEnd(s))

StartsWith(s, w) == StartsAt(s, 1, w)

ExportDefault == ExportWord \o <<" ">> \o DefaultWord

StyleEnd == <<"}", ")", ";">>

\* lines 516-531: what follows the last export statement, or the end of the
\* last style sheet, is cut when it is not code
CutTrailingProse(s) ==
    LET lastExport == LastIndexOf(s, ExportDefault)
        lastStyleEnd == LastIndexOf(s, StyleEnd)
        cutPoint == IF lastExport > lastStyleEnd THEN lastExport ELSE lastStyleEnd
        semis == {i \in cutPoint..Len(s) : s[i] = ";"}
        endIdx == IF StartsAt(s, cutPoint, ExportDefault)
                      THEN IF semis = {} THEN cutPoint - 1
                           ELSE CHOOSE i \in semis : \A j \in semis : i <= j
                      ELSE cutPoint + 2
        afterEnd == Trim(SubSeq(s, endIdx + 1, Len(s)))
    IN  IF /\ cutPoint > 1
           /\ afterEnd # <<>>
           /\ ~StartsWith(afterEnd, ExportWord)
           /\ ~StartsWith(afterEnd, <<"c", "o", "n", "s", "t">>)
           /\ ~StartsWith(afterEnd, <<"f", "u", "n", "c", "t", "i", "o", "n">>)
           /\ ~StartsWith(afterEnd, <<"/", "/">>)
            THEN SubSeq(s, 1, endIdx)
            ELSE s

\* lines 510-535
CleanCodeResponse(s) ==
    Trim(FixCommonSyntaxErrors(
        CutTrailingProse(DropBeforeImport(
            StripFences(FALSE, StripFences(TRUE, s, 1), 1)))))

-----------------------------------------------------------------------------
(* The two functions applied to texts put together from a few pieces.       *)

\* the pieces the longer texts are made of
CoreFragments ==
    {<<"{">>,
     <<"}">>,
     <<",">>,
     <<"'">>,
     <<"\n">>,
     <<"a", ":", "1">>,
     <<"e", "x", "p", "o", "r", "t", " ", "d", "e", "f", "a", "u", "l", "t", " ", "A", "p", "p">>,
     <<"f", "u", "n", "c", "t", "i", "o", "n", " ", "A", "p", "p">>}

\* the pieces of the shorter texts: one for each pattern of the two functions
AllFragments ==
    CoreFragments \cup
    {<<"[">>,
     <<"]">>,
     <<"(">>,
     <<")">>,
     <<"1", "p", "x">>,
     <<":", " ", "5", "0", "%">>,
     <<"2", " ", "i", "t", "e", "m", "s">>,
     <<"{", " ", "2", "x", " ", ":">>,
     <<"/", "/", "U+00E9">>,
     <<Backtick, Backtick, Backtick, "j", "s">>,
     <<"i", "m", "p", "o", "r", "t", " ", "R", "e", "a", "c", "t">>,
     <<"}", ")", ";">>,
     <<";">>}

MaxFragments == 4

MaxShort == 2

RECURSIVE Flatten(_)
Flatten(ws) == IF ws = <<>> THEN <<>> ELSE Head(ws) \o Flatten(Tail(ws))

\* the texts of at most n pieces of fs
TextsOf(fs, n) == {Flatten(ws) : ws \in UNION {[1..k -> fs] : k \in 0..n}}

\* the text before a terminal marker
Lead == <<"{", "}", "\n">>

\* the two markers cleanCodeResponse looks for: an export statement, the
\* end of a style sheet
TerminalMarkers == {ExportDefaultApp, StyleEnd}

\* what can follow a marker: nothing, a declaration on the next line or on
\* the same line, prose, a comment
Tails ==
    {<<>>,
     <<"\n", "c", "o", "n", "s", "t", " ", "x">>,
     <<"\n", "f", "u", "n", "c", "t", "i", "o", "n", " ", "f">>,
     <<" ", "c", "o", "n", "s", "t", " ", "x">>,
     <<"\n", "D", "o", "n", "e">>,
     <<"\n", "/", "/", "o", "k">>}

\* the texts that end with a marker and what follows it
MarkedTexts == {Lead \o m \o t : m \in TerminalMarkers, t \in Tails}

Inputs ==
    TextsOf(CoreFragments, MaxFragments) \cup TextsOf(AllFragments, MaxShort)
        \cup MarkedTexts

RepInit ==
    /\ rpc = "raw"
    /\ input \in Inputs
    /\ repaired = <<>>
    /\ cleaned = <<>>
    /\ recleaned = <<>>

\* fixCommonSyntaxErrors(input)
fixCommonSyntaxErrors ==
    /\ rpc = "raw"
    /\ repaired' = FixCommonSyntaxErrors(input)
    /\ rpc' = "repaired"
    /\ UNCHANGED <<input, cleaned, recleaned>>

\* cleanCodeResponse(input)
cleanCodeResponse ==
    /\ rpc = "raw"
    /\ cleaned' = CleanCodeResponse(input)
    /\ rpc' = "cleaned"
    /\ UNCHANGED <<input, repaired, recleaned>>

\* cleanCodeResponse applied to the text it gave
cleanCodeResponseAgain ==
    /\ rpc = "cleaned"
    /\ recleaned' = CleanCodeResponse(cleaned)
    /\ rpc' = "recleaned"
    /\ UNCHANGED <<input, repaired, cleaned>>

RepairInit ==
    /\ RepInit
    /\ StoreOff
    /\ GenIdle
    /\ ClarOff
    /\ remote = [exists |-> FALSE, name |-> "", ready |-> FALSE, head |-> 0]
    /\ ppc = [p \in Procs |-> "off"]
    /\ net = "reliable"
    /\ PubIdle

RepairNext ==
    \/ fixCommonSyntaxErrors /\ UNCHANGED <<genVars, pubVars, clarVars, storeVars>>
    \/ cleanCodeResponse /\ UNCHANGED <<genVars, pubVars, clarVars, storeVars>>
    \/ cleanCodeResponseAgain /\ UNCHANGED <<genVars, pubVars, clarVars, storeVars>>

RepairSpec == RepairInit /\ [][RepairNext]_vars

-----------------------------------------------------------------------------
(* The storage functions saveProject and deleteProject, project-context.tsx *)
(* lines 102-123, called by two callers whose awaits interleave.            *)

\* saveProject(project), up to the await of getProjects (line 109)
saveProject(p) ==
    /\ spc[p] = "idle"
    /\ \E i \in ProjectIds :
          sop' = [sop EXCEPT ![p] = [kind |-> "save", id |-> i, rev |-> p]]
    /\ spc' = [spc EXCEPT ![p] = "getItem"]
    /\ UNCHANGED <<stored, slocal>>

\* deleteProject(id), up to the await of getProjects (line 120)
deleteProject(p) ==
    /\ spc[p] = "idle"
    /\ \E i \in ProjectIds :
          sop' = [sop EXCEPT ![p] = [kind |-> "delete", id |-> i, rev |-> 0]]
    /\ spc' = [spc EXCEPT ![p] = "getItem"]
    /\ UNCHANGED <<stored, slocal>>

\* lines 110-115: the project replaces the one with its id, or goes first
Saved(projects, op) ==
    IF \E k \in 1..Len(projects) : projects[k].id = op.id
        THEN [k \in 1..Len(projects) |->
                 IF k = (CHOOSE j \in 1..Len(projects) :
                             /\ projects[j].id = op.id
                             /\ \A h \in 1..(j - 1) : projects[h].id # op.id)
                     THEN Project(op.id, op.rev)
                     ELSE projects[k]]
        ELSE <<Project(op.id, op.rev)>> \o projects

\* line 121: projects.filter(p => p.id !== id)
Filtered(projects, op) == SelectSeq(projects, LAMBDA x : x.id # op.id)

\* the list the call of p writes, from the list it read
ToWrite(p) ==
    IF sop[p].kind = "save" THEN Saved(slocal[p], sop[p]) ELSE Filtered(slocal[p], sop[p])

\* AsyncStorage.getItem resolves (lines 103-105): the call has the stored
\* list, changes its copy and asks for the write (lines 110-116, 121-122)
getProjects(p) ==
    /\ spc[p] = "getItem"
    /\ slocal' = [slocal EXCEPT ![p] = stored]
    /\ spc' = [spc EXCEPT ![p] = "setItem"]
    /\ UNCHANGED <<stored, sop>>

\* AsyncStorage.setItem stores the list (lines 116, 122) and the call ends
setItem(p) ==
    /\ spc[p] = "setItem"
    /\ stored' = ToWrite(p)
    /\ spc' = [spc EXCEPT ![p] = "done"]
    /\ UNCHANGED <<sop, slocal>>

\* two callers about to call a storage function, and a stored list
PersistInit ==
    /\ stored \in StoredLists
    /\ spc = [p \in Procs |-> "idle"]
    /\ sop = [p \in Procs |-> NoCall]
    /\ slocal = [p \in Procs |-> <<>>]
    /\ GenIdle
    /\ ClarOff
    /\ RepOff
    /\ remote = [exists |-> FALSE, name |-> "", ready |-> FALSE, head |-> 0]
    /\ ppc = [p \in Procs |-> "off"]
    /\ net = "reliable"
    /\ PubIdle

PersistNext ==
    \/ \E p \in Procs : saveProject(p) /\ UNCHANGED <<genVars, pubVars, clarVars, repVars>>
    \/ \E p \in Procs : deleteProject(p) /\ UNCHANGED <<genVars, pubVars, clarVars, repVars>>
    \/ \E p \in Procs : getProjects(p) /\ UNCHANGED <<genVars, pubVars, clarVars, repVars>>
    \/ \E p \in Procs : setItem(p) /\ UNCHANGED <<genVars, pubVars, clarVars, repVars>>

PersistSpec == PersistInit /\ [][PersistNext]_vars

-----------------------------------------------------------------------------
(* Properties of generateCode, checked under Spec.                          *)

SeqRange(q) == {q[i] : i \in 1..Len(q)}

Count(q, x) == Cardinality({i \in 1..Len(q) : q[i] = x})

\* the provider names the settings configure (lines 247-252)
Configured(s) ==
    LET own == {n \in {"Gemini", "Groq", "HuggingFace"} :
                    \/ n = "Gemini" /\ s.geminiApiKey # ""
                    \/ n = "Groq" /\ s.groqApiKey # ""
                    \/ n = "HuggingFace" /\ s.huggingfaceApiKey # ""}
    IN  IF own = {} /\ s.llmApiKey # "" THEN {"Gemini"} ELSE own

\* C1: the providers are invoked in the order of the sorted array, one after
\* the other; when the provider at position k is the first whose text is
\* accepted, exactly the providers 1..k have been invoked, the k-1 before it
\* each left one error, the request is over, and that text is the only one
\* accepted
C1_ShortCircuit ==
    /\ Len(accepted) <= 1
    /\ Len(invoked) <= Len(providers)
    /\ \A i \in 1..Len(invoked) : invoked[i] = providers[i].name
    /\ accepted # <<>> => outcome.kind = "returned"
    /\ outcome.kind = "returned" =>
          /\ gpc = "done"
          /\ accepted = <<outcome.from>>
          /\ Len(invoked) = cur
          /\ outcome.from = providers[cur].name
          /\ Len(errors) = cur - 1

\* the second of three providers is the first to succeed
C1_Witness ==
    /\ outcome.kind = "returned"
    /\ Len(providers) = 3
    /\ cur = 2
    /\ invoked = <<providers[1].name, providers[2].name>>

\* the classes of failure the aggregate error is said to rank
AuthInvalid(m) == m.tpl \in {"GeminiKey401", "GroqKey401", "HFKey401"}

PermissionDenied(m) ==
    \/ m.tpl = "GeminiKey403"
    \/ m.tpl \in {"GroqHttp", "HFHttp"} /\ m.num = 403

TransientRateLimit(m) == m.tpl \in {"GeminiRateLimited", "GroqRateLimit", "HFRateLimit"}

\* C8: when every backend has failed and one of them failed because its key
\* is invalid or lacks permission, the error raised is the invalid-key error, whatever the other
\* backends failed with (a rate limit included)
C8_AuthFirst ==
    (/\ outcome.kind = "thrown"
     /\ \E i \in 1..Len(errors) : AuthInvalid(errors[i]) \/ PermissionDenied(errors[i]))
        => outcome.err = "InvalidKey"

\* one backend's key is invalid, another is rate limited
C8_Witness ==
    /\ outcome.kind = "thrown"
    /\ \E i \in 1..Len(errors) : AuthInvalid(errors[i])
    /\ \E i \in 1..Len(errors) : TransientRateLimit(errors[i])

TooShort(m) ==
    m.tpl \in {"GeminiTooLittle", "GroqTooShort", "HFTooLittle", "Insufficient",
               "TooFewLines"}

\* C9: when every backend failed only because its output was too short,
\* whatever the length, the error raised is the generic failure
C9_TooShortIsGeneric ==
    (/\ outcome.kind = "thrown"
     /\ errors # <<>>
     /\ \A i \in 1..Len(errors) : TooShort(errors[i]))
        => outcome.err = "Generic"

\* every backend failed by too short an output
C9_Witness ==
    /\ outcome.kind = "thrown"
    /\ Len(errors) = 3
    /\ \A i \in 1..Len(errors) : TooShort(errors[i])

\* C10: generateCode raises exactly when no key is configured, or when every
\* configured backend has been tried and no text was accepted, and then only
\* after the last of them was tried; otherwise what it returns is the text
\* of the backend that was accepted, never a text of its own
C10_NoSilentFallback ==
    /\ gpc # "done" => outcome.kind = "none"
    /\ gpc = "done" =>
          /\ outcome.kind \in {"thrown", "returned"}
          /\ outcome.kind = "thrown" <=>
                \/ Configured(settings) = {}
                \/ /\ SeqRange(invoked) = Configured(settings)
                   /\ accepted = <<>>
          /\ (outcome.kind = "thrown" /\ Configured(settings) = {}) =>
                /\ outcome.err = "NoKeys"
                /\ invoked = <<>>
          /\ (outcome.kind = "thrown" /\ Configured(settings) # {}) =>
                /\ outcome.err \in {"RateLimit", "InvalidKey", "Generic"}
                /\ Len(invoked) = Cardinality(Configured(settings))
                /\ Len(errors) = Len(invoked)
                /\ cur = Len(providers)
          /\ outcome.kind = "returned" =>
                /\ accepted = <<outcome.from>>
                /\ outcome.from = providers[cur].name
                /\ outcome.from \in Configured(settings)
                /\ outcome.len > 500
                /\ outcome.lines >= 200

\* three backends were tried, the last one failed too, and the error is raised
C10_Witness ==
    /\ outcome.kind = "thrown"
    /\ outcome.err # "NoKeys"
    /\ Len(invoked) = 3
    /\ Len(errors) = 3

\* the order the pushes of lines 247-249 are written in
ConfigurationOrder == <<"Gemini", "Groq", "HuggingFace">>

\* the preferred provider when it is configured, then the other configured
\* providers in the order of the configuration
ExpectedOrder(s) ==
    LET IsPreferred(n) == ToLowerCase(n) = s.llmProvider
        First(n) == n \in Configured(s) /\ IsPreferred(n)
        Other(n) == n \in Configured(s) /\ ~IsPreferred(n)
    IN  SelectSeq(ConfigurationOrder, First) \o SelectSeq(ConfigurationOrder, Other)

\* C18: the providers array holds exactly the providers that have a key, the
\* preferred one first when it has a key, the others in the order Gemini,
\* Groq, HuggingFace; the providers invoked are the first ones of that order
C18_ProviderOrder ==
    gpc # "idle" =>
        /\ [i \in 1..Len(providers) |-> providers[i].name] = ExpectedOrder(settings)
        /\ \A i \in 1..Len(providers) : providers[i].key # ""
        /\ invoked = SubSeq(ExpectedOrder(settings), 1, Len(invoked))

\* HuggingFace is preferred and all three have a key: all were invoked
C18_Witness ==
    /\ settings.llmProvider = "huggingface"
    /\ invoked = <<"HuggingFace", "Gemini", "Groq">>

\* C19: a text that is returned has more than 500 characters and at least
\* 200 lines; a provider whose text is below that leaves an error, is never
\* the one accepted, and the next provider is invoked (or, after the last
\* one, the request throws)
C19_MinimumSize ==
    /\ outcome.kind = "returned" => outcome.len > 500 /\ outcome.lines >= 200
    /\ \A i \in 1..Len(errors) :
          TooShort(errors[i]) =>
              /\ accepted # <<providers[i].name>>
              /\ i < Len(providers) => Len(invoked) > i
              /\ i = Len(providers) => outcome.kind = "thrown"

\* the first provider's text had too few lines, the second one's is returned
C19_Witness ==
    /\ Len(errors) = 1
    /\ errors[1].tpl = "TooFewLines"
    /\ outcome.kind = "returned"
    /\ outcome.from = providers[2].name

\* C20: a provider that fails with an invalid key or a refusal of permission
\* leaves its error in the list and the next provider is invoked; the
\* request throws only after the last provider, and then not with the
\* generic error
C20_AuthNotFatal ==
    \A i \in 1..Len(errors) :
        (AuthInvalid(errors[i]) \/ PermissionDenied(errors[i])) =>
            /\ i < Len(providers) => Len(invoked) > i
            /\ outcome.kind = "thrown" =>
                  /\ Len(invoked) = Len(providers)
                  /\ Len(errors) = Len(providers)
                  /\ outcome.err \in {"InvalidKey", "RateLimit"}

\* the first provider's key is invalid, the second is refused, the third's
\* text is returned
C20_Witness ==
    /\ Len(errors) = 2
    /\ AuthInvalid(errors[1])
    /\ PermissionDenied(errors[2])
    /\ outcome.kind = "returned"
    /\ outcome.from = providers[3].name

-----------------------------------------------------------------------------
(* Properties of one publish run, checked under PublishSpec: any request    *)
(* may meet a fault.                                                        *)

Calls(p) == SeqRange(hist[p].calls)

\* the failures of caller p at a step, of kind k
Failures(p, step, k) ==
    {i \in 1..Len(hist[p].failed) :
        hist[p].failed[i].step = step /\ hist[p].failed[i].k = k}

BlobFailed(p) == Failures(p, "blob", "notok") \cup Failures(p, "blob", "exception") # {}

\* C2: when the upload of a file fails, the run ends there with the error:
\* the failed upload is the last request of the run, so no further upload
\* and no tree, commit or ref-update request follows it
C2_NoPartialPublish ==
    \A p \in Procs :
        BlobFailed(p) =>
            /\ ppc[p] = "done"
            /\ result[p].kind = "error"
            /\ result[p].at = "blob"
            /\ Calls(p) \cap {"tree", "commit", "updateRef"} = {}
            /\ hist[p].calls[Len(hist[p].calls)] = "blob"
            /\ Count(hist[p].calls, "blob") = Len(push[p].blobs) + 1

\* the fourth upload fails, after three that succeeded
C2_Witness ==
    \E p \in Procs :
        /\ BlobFailed(p)
        /\ Len(push[p].blobs) = 3
        /\ result[p].kind = "error"

\* C3 as stated: a run that fails before the ref update has changed nothing
\* a reader of the repository sees
C3_OnlyRefUpdateVisible ==
    \A p \in Procs :
        (result[p].kind = "error" /\ result[p].at # "updateRef") => hist[p].changes = {}

\* C3, amended: the creation of the repository and the ref update are the
\* only steps that change what a reader sees, and no step that meets a fault
\* changes anything; a run that fails leaves the branch head where it was,
\* and the head has moved exactly when the run succeeded
C3_CreateAndRefUpdateVisible ==
    \A p \in Procs :
        /\ hist[p].changes \subseteq {"create", "updateRef"}
        /\ hist[p].changes \cap hist[p].faults = {}
        /\ result[p].kind = "error" => "updateRef" \notin hist[p].changes
        /\ "updateRef" \in hist[p].changes <=> result[p].kind = "ok"
        /\ (ppc[p] # "off" /\ result[p].kind # "ok") => remote.head = 0

\* the run created the repository, then a fault stopped an upload
C3_Witness ==
    \E p \in Procs :
        /\ hist[p].changes = {"create"}
        /\ result[p].kind = "error"
        /\ result[p].at = "blob"
        /\ "blob" \in hist[p].faults

\* C4: when the ref update is issued, the commit it names has the tree that
\* was built from one blob for each file of the manifest, no more and no less
C4_WholeManifest ==
    \A p \in Procs :
        "updateRef" \in Calls(p) =>
            /\ push[p].commitSha \in 1..Len(commits)
            /\ commits[push[p].commitSha].tree = push[p].treeSha
            /\ push[p].treeSha \in 1..Len(trees)
            /\ Len(trees[push[p].treeSha].paths) = Len(FILES)
            /\ SeqRange(trees[push[p].treeSha].paths) = SeqRange(FILES)

\* a run whose ref update succeeded
C4_Witness ==
    \E p \in Procs :
        /\ result[p].kind = "ok"
        /\ remote.head = push[p].commitSha
        /\ "updateRef" \in Calls(p)

\* C7: the branch head is read at most three times, after 1500 ms and then
\* 2000 ms before each further read; when three reads are refused the run
\* fails with the repository-not-ready error, and a run that fails at the
\* read uploads nothing
C7_ReadinessRetry ==
    \A p \in Procs :
        LET reads == Count(hist[p].calls, "readRef")
            refused == Cardinality(Failures(p, "readRef", "notok"))
        IN  /\ reads <= 3
            /\ Len(hist[p].delays) = reads
            /\ \A i \in 1..Len(hist[p].delays) :
                  hist[p].delays[i] = IF i = 1 THEN 1500 ELSE 2000
            /\ refused = 3 =>
                  /\ result[p] = [kind |-> "error", err |-> "RepositoryNotReady",
                                  at |-> "readRef"]
                  /\ Calls(p) \cap {"blob", "tree", "commit", "updateRef"} = {}
            /\ result[p].err = "RepositoryNotReady" => refused = 3 /\ reads = 3
            /\ (result[p].kind = "error" /\ result[p].at = "readRef") =>
                  Calls(p) \cap {"blob", "tree", "commit", "updateRef"} = {}

\* three reads were refused
C7_Witness ==
    \E p \in Procs :
        /\ result[p].err = "RepositoryNotReady"
        /\ hist[p].delays = <<1500, 2000, 2000>>

-----------------------------------------------------------------------------
(* Properties of createRepo under two callers, checked under                *)
(* ConcurrentSpec: the remote answers every request as the state of the     *)
(* repository calls for.                                                    *)

SameDescriptor(a, b) ==
    /\ a.name = b.name
    /\ a.full_name = b.full_name
    /\ a.html_url = b.html_url

\* C5: a createRepo called when the repository exists sends no creation
\* request, does not fail, and returns the descriptor every other successful
\* createRepo for the target returns
C5_Idempotent ==
    \A p \in Procs :
        (hist[p].existed /\ repo[p].kind # "none") =>
            /\ repo[p].kind = "ok"
            /\ "createRepo" \notin Calls(p)
            /\ hist[p].changes \cap {"check", "create", "recheck"} = {}
            /\ SameDescriptor(repo[p], Descriptor(remote))
            /\ \A q \in Procs : repo[q].kind = "ok" => SameDescriptor(repo[p], repo[q])

\* one caller created the repository, the other called createRepo after that
C5_Witness ==
    \E p, q \in Procs :
        /\ p # q
        /\ "create" \in hist[q].changes
        /\ repo[q].kind = "ok"
        /\ hist[p].existed
        /\ repo[p].kind = "ok"

\* the callers whose creation request made the repository
Creators == {p \in Procs : "create" \in hist[p].changes}

\* both existence checks found nothing: both callers sent a creation request
Raced == \A p \in Procs : "createRepo" \in Calls(p)

\* C6: the repository is created at most once and no createRepo fails; when
\* both callers sent a creation request, exactly one of them created the
\* repository, and the other checked again and returned the repository that
\* exists
C6_CreateRace ==
    /\ Cardinality(Creators) <= 1
    /\ \A p \in Procs : repo[p].kind # "error"
    /\ (Raced /\ \A p \in Procs : repo[p].kind # "none") =>
          /\ Cardinality(Creators) = 1
          /\ \A p \in Procs \ Creators :
                SubSeq(hist[p].calls, 1, 3) =
                    <<"checkRepoExists", "createRepo", "checkRepoExists">>
          /\ \A p \in Procs :
                /\ repo[p].kind = "ok"
                /\ SameDescriptor(repo[p], Descriptor(remote))

\* both callers sent a creation request and both createRepo calls are over
C6_Witness ==
    /\ Raced
    /\ \A p \in Procs : repo[p].kind = "ok"
    /\ Cardinality(Creators) = 1

-----------------------------------------------------------------------------
(* Properties of generateClarifications, checked under ClarifySpec.         *)

\* C11: generateClarifications never throws: whatever the settings and
\* whatever the backends answer, the caller gets a non-empty list of pairs
C11_NeverThrows ==
    cpc = "done" =>
        /\ cresult.kind # "thrown"
        /\ Len(cresult.items) > 0

\* no key is configured: the request ends with the throw of line 144
C11_Witness == cpc = "done" /\ cresult.kind = "thrown"

\* C12: when providers are configured and the answer of every one of them
\* was rejected or threw, the result is the default list of three pairs, and
\* each provider was called once, in the order of the array, before that;
\* the default list is returned in no other case
C12_DefaultAfterAll ==
    /\ Len(cinvoked) <= Len(cproviders)
    /\ \A i \in 1..Len(cinvoked) : cinvoked[i] = cproviders[i].name
    /\ (/\ cpc = "done"
        /\ cproviders # <<>>
        /\ \A i \in 1..Len(cseen) : cseen[i] # "accepted") =>
            /\ cresult = [kind |-> "default", items |-> DefaultClarifications, from |-> ""]
            /\ Len(cresult.items) = 3
            /\ Len(cinvoked) = Len(cproviders)
            /\ Len(cseen) = Len(cproviders)
    /\ cresult.kind = "default" =>
            /\ cpc = "done"
            /\ Len(cinvoked) = Len(cproviders)
            /\ Len(cseen) = Len(cproviders)
            /\ \A i \in 1..Len(cseen) : cseen[i] \in {"rejected", "caught"}

\* three providers were called, one threw, one answered prose, one a bad array
C12_Witness ==
    /\ cresult.kind = "default"
    /\ Len(cinvoked) = 3
    /\ "rejected" \in SeqRange(cseen)
    /\ "caught" \in SeqRange(cseen)

-----------------------------------------------------------------------------
(* Properties of cleanCodeResponse and fixCommonSyntaxErrors, checked under *)
(* RepairSpec.                                                              *)

\* C13: cleanCodeResponse is idempotent: applied to the text it gave, it
\* gives that text again.
C13_Idempotent == rpc = "recleaned" => recleaned = cleaned

\* {,,} is cleaned to {,} and {,} is cleaned to {}
C13_Witness ==
    /\ rpc = "recleaned"
    /\ input = <<"{", ",", ",", "}">>
    /\ cleaned = <<"{", ",", "}">>
    /\ recleaned = <<"{", "}">>

\* the brackets of a text are balanced outside its quoted spans: the scan of
\* lines 558-586 ends with its three counts at zero
Balanced(code) ==
    LET st == Scan(code, 1, ScanStart)
    IN  st.braceCount = 0 /\ st.parenCount = 0 /\ st.bracketCount = 0

\* C14: the text fixCommonSyntaxErrors returns has, outside quoted and
\* template spans, as many opening as closing braces, parentheses and
\* brackets, whatever text it was given.
C14_Balanced == rpc = "repaired" => Balanced(repaired)

\* a closer without an opener stays
C14_Witness ==
    /\ rpc = "repaired"
    /\ input = <<"}">>
    /\ repaired = <<"}">>

\* the closing quote of the span that opens at index i, Len(code) + 1 when
\* the span is not closed: lines 569-572
RECURSIVE SpanEnd(_, _, _)
SpanEnd(code, i, j) ==
    IF j > Len(code) THEN j
    ELSE IF code[j] = code[i] /\ code[j - 1] # "\\" THEN j
    ELSE SpanEnd(code, i, j + 1)

\* the quoted spans of a text that are closed, quotes included, as the scan
\* of lines 565-586 finds them from index i on
RECURSIVE ClosedSpans(_, _)
ClosedSpans(code, i) ==
    IF i > Len(code) THEN {}
    ELSE IF code[i] \in {"\"", "'", Backtick}
        THEN LET j == SpanEnd(code, i, i + 1)
             IN  IF j > Len(code) THEN {}
                 ELSE {SubSeq(code, i, j)} \cup ClosedSpans(code, j + 1)
    ELSE ClosedSpans(code, i + 1)

\* C15: every single-quoted, double-quoted or template span of the text
\* given to fixCommonSyntaxErrors is in the text it returns, character for
\* character.
C15_LiteralsKept ==
    rpc = "repaired" => \A span \in ClosedSpans(input, 1) : Contains(repaired, span)

\* the string ',}' comes back as '}'
C15_Witness ==
    /\ rpc = "repaired"
    /\ input = <<"'", ",", "}", "'">>
    /\ repaired = <<"'", "}", "'">>

\* the comma at index i is followed, after optional white space, by } or ]
BeforeCloser(s, i) ==
    /\ s[i] = ","
    /\ At(s, RunEnd(s, i + 1, SpaceChars) + 1) \in {"}", "]"}

\* the text without those commas
RECURSIVE WithoutTrailingCommas(_, _)
WithoutTrailingCommas(s, i) ==
    IF i > Len(s) THEN <<>>
    ELSE (IF BeforeCloser(s, i) THEN <<>> ELSE <<s[i]>>) \o WithoutTrailingCommas(s, i + 1)

\* C16: fixCommonSyntaxErrors removes every comma of the text that is
\* followed, after optional white space, by } or ], and when the text
\* without those commas is one that repair leaves alone, that text is what
\* it returns: {a:1,} gives {a:1}.
C16_TrailingCommas ==
    rpc = "repaired" =>
        LET plain == WithoutTrailingCommas(input, 1)
        IN  /\ ReplaceAll("trailingComma", input, 1) = plain
            /\ FixCommonSyntaxErrors(plain) = plain => repaired = plain
            /\ input = <<"{", "a", ":", "1", ",", "}">>
                   => repaired = <<"{", "a", ":", "1", "}">>

\* a comma, and the closer on the next line
C16_Witness ==
    /\ rpc = "repaired"
    /\ input = <<"{", ",", "\n", "}">>
    /\ repaired = <<"{", "\n", "}">>

\* the only defect of the text is that closing braces are missing at its
\* end: none of the patterns of lines 538-554 is in it, no quote is open at
\* its end, its parentheses and brackets are balanced
OnlyMissingBraces(code) ==
    LET st == Scan(code, 1, ScanStart)
    IN  /\ FixPatterns(code) = code
        /\ st.braceCount > 0
        /\ st.parenCount = 0
        /\ st.bracketCount = 0
        /\ ~st.inString
        /\ ~st.inTemplate

\* C17: given a text whose only defect is n missing closing braces at its
\* end, fixCommonSyntaxErrors returns that text with n closing braces after
\* it, and nothing else but white space.
C17_AppendsBraces ==
    rpc = "repaired" /\ OnlyMissingBraces(input) =>
        /\ Len(repaired) >= Len(input)
        /\ SubSeq(repaired, 1, Len(input)) = input
        /\ SelectSeq(SubSeq(repaired, Len(input) + 1, Len(repaired)),
                     LAMBDA c : c \notin SpaceChars)
               = Repeat(<<"}">>, Scan(input, 1, ScanStart).braceCount)

\* two braces open after the export statement: the statement alone is left
C17_Witness ==
    /\ rpc = "repaired"
    /\ input = ExportWord \o <<" ">> \o DefaultWord \o <<" ">> \o AppWord \o <<"\n", "{", "{">>
    /\ OnlyMissingBraces(input)
    /\ repaired = ExportDefaultApp

-----------------------------------------------------------------------------
(* Properties of the order of the publish steps, checked under PublishSpec. *)

\* the requests of a run are in the order existence check, create, second
\* existence check, reads of the branch head, uploads, tree, commit, ref
\* update, and a request is there only when the ones before it are
WellOrdered(c) ==
    LET checks == Count(c, "checkRepoExists")
        creates == Count(c, "createRepo")
        reads == Count(c, "readRef")
        blobs == Count(c, "blob")
        tree == Count(c, "tree")
        commit == Count(c, "commit")
        update == Count(c, "updateRef")
    IN  /\ c = Repeat(<<"checkRepoExists">>, IF checks > 0 THEN 1 ELSE 0)
                 \o Repeat(<<"createRepo">>, creates)
                 \o Repeat(<<"checkRepoExists">>, checks - 1)
                 \o Repeat(<<"readRef">>, reads)
                 \o Repeat(<<"blob">>, blobs)
                 \o Repeat(<<"tree">>, tree)
                 \o Repeat(<<"commit">>, commit)
                 \o Repeat(<<"updateRef">>, update)
        /\ checks <= 2 /\ creates <= 1 /\ tree <= 1 /\ commit <= 1 /\ update <= 1
        /\ checks = 2 => creates = 1
        /\ blobs <= Len(FILES)
        /\ blobs > 0 => reads > 0
        /\ tree = 1 => blobs = Len(FILES)
        /\ commit = 1 => tree = 1
        /\ update = 1 => commit = 1

\* the run of caller p ended with the failure f
EndedAt(p, f) ==
    /\ ppc[p] = "done"
    /\ result[p].kind = "error"
    /\ result[p].at = f.step
    /\ hist[p].failed[Len(hist[p].failed)] = f

\* the create request is issued only when the existence check gave no
\* repository, and an upload only when a read of the branch head succeeded
IssuedOnNeed(p) ==
    /\ "createRepo" \in Calls(p) =>
          Failures(p, "check", "notok") \cup Failures(p, "check", "exception") # {}
    /\ "blob" \in Calls(p) =>
          Cardinality(Failures(p, "readRef", "notok")) < Count(hist[p].calls, "readRef")

\* C21 as stated: the steps of a run are issued in order, none skipped, and
\* none is issued unless the step before it succeeded: a run in which the
\* create, an upload, the tree, the commit or the ref update failed ended
\* with that failure.
C21_StrictOrder ==
    \A p \in Procs :
        /\ WellOrdered(hist[p].calls)
        /\ IssuedOnNeed(p)
        /\ \A i \in 1..Len(hist[p].failed) :
              hist[p].failed[i].step \in {"create", "blob", "tree", "commit", "updateRef"}
                  => EndedAt(p, hist[p].failed[i])

\* C21: the steps of a run are issued in order, none skipped on the way to
\* the ref update; a failed upload, tree, commit or ref update ends the run,
\* and so does a failed create unless the remote refused it with 'name
\* already exists', after which the existence check is made again and the
\* branch head is read whatever that check gives.
C21_OrderedSteps ==
    \A p \in Procs :
        /\ WellOrdered(hist[p].calls)
        /\ IssuedOnNeed(p)
        /\ \A i \in 1..Len(hist[p].failed) :
              LET f == hist[p].failed[i]
              IN  /\ f.step \in {"blob", "tree", "commit", "updateRef"} => EndedAt(p, f)
                  /\ f.step = "create" =>
                        \/ EndedAt(p, f)
                        \/ /\ f.status = 422
                           /\ f.msg = "name already exists"
                           /\ Count(hist[p].calls, "checkRepoExists") = 2
                  /\ f.step = "recheck" => result[p].at # "recheck"

\* the create was refused, the second existence check failed too, and the
\* run went on to move the branch
C21_Witness ==
    \E p \in Procs :
        /\ Failures(p, "create", "notok") # {}
        /\ Failures(p, "recheck", "notok") \cup Failures(p, "recheck", "exception") # {}
        /\ result[p].kind = "ok"
        /\ Count(hist[p].calls, "blob") = Len(FILES)

-----------------------------------------------------------------------------
(* Properties of the objects a run builds, checked under ConcurrentSpec:    *)
(* the branch head moves while a run is under way.                          *)

\* the tree and the commit of the run of caller p are built on the head it read
BuiltOnHeadRead(p) ==
    LET t == trees[push[p].treeSha]
        c == commits[push[p].commitSha]
    IN  /\ t.by = p
        /\ t.base = push[p].latestSha
        /\ t.paths = FILES
        /\ c.by = p
        /\ c.tree = push[p].treeSha
        /\ c.parent = push[p].latestSha
        /\ IsAncestor(push[p].latestSha, remote.head, commits)

\* C22: in every run that reaches the ref update, the tree has the branch
\* head read in this run as its base, the commit has that head as its parent
\* and that tree as its tree, and the ref update that succeeds leaves the
\* branch at exactly that commit.
C22_BuiltOnHeadRead ==
    /\ [](\A p \in Procs : "updateRef" \in Calls(p) => BuiltOnHeadRead(p))
    /\ [][\A p \in Procs :
              (ppc[p] = "updateRef" /\ result'[p].kind = "ok")
                  => remote'.head = push[p].commitSha]_vars

\* a run has moved the branch to a commit whose parent is the commit of the
\* run before it
C22_Witness ==
    \E p \in Procs :
        /\ result[p].kind = "ok"
        /\ push[p].latestSha # 0
        /\ remote.head = push[p].commitSha

-----------------------------------------------------------------------------
(* Properties of the retries of pushCode, checked under PublishSpec.        *)

\* C23: in a run of pushCode only the read of the branch head is asked for
\* again: there is one upload request per file of the manifest, in its
\* order, at most one tree, one commit and one ref-update request, and when
\* one of these requests fails it is the last request of the run, which
\* ends with an error.
C23_OnlyReadRetried ==
    \A p \in Procs :
        LET c == hist[p].calls
            uploads == Count(c, "blob")
        IN  /\ push[p].blobs = SubSeq(FILES, 1, Len(push[p].blobs))
            /\ uploads \in {Len(push[p].blobs), Len(push[p].blobs) + 1}
            /\ uploads <= Len(FILES)
            /\ Count(c, "tree") <= 1
            /\ Count(c, "commit") <= 1
            /\ Count(c, "updateRef") <= 1
            /\ Count(c, "readRef") <= 3
            /\ \A i \in 1..Len(hist[p].failed) :
                  LET f == hist[p].failed[i]
                  IN  f.step \in {"blob", "tree", "commit", "updateRef"} =>
                          /\ i = Len(hist[p].failed)
                          /\ ppc[p] = "done"
                          /\ result[p].kind = "error"
                          /\ result[p].at = f.step
                          /\ c[Len(c)] = f.step
                          /\ f.step = "blob" => uploads = Len(push[p].blobs) + 1

\* two reads of the branch head were refused, the third gave it, and the
\* run ended when the tree was refused
C23_Witness ==
    \E p \in Procs :
        /\ Cardinality(Failures(p, "readRef", "notok")) = 2
        /\ Failures(p, "tree", "notok") # {}
        /\ Count(hist[p].calls, "tree") = 1
        /\ result[p].kind = "error"

-----------------------------------------------------------------------------
(* Properties of the error of a refused ref update, checked under           *)
(* ConcurrentSpec: the remote refuses an update that is not a fast-forward.  *)

\* C24: when the remote refuses the ref update, a 403 or a 'Resource not
\* accessible' message gives the fixed message about the Contents
\* permission, and any other refusal gives an error that holds both the
\* status code and the message the remote sent.
C24_StatusAndMessage ==
    \A p \in Procs :
        (result[p].kind = "error" /\ result[p].at = "updateRef") =>
            LET f == hist[p].failed[Len(hist[p].failed)]
            IN  f.k = "notok" =>
                    IF f.status = 403 \/ f.msg = "Resource not accessible"
                        THEN result[p].err = "CantPush"
                        ELSE /\ result[p].err = "PushFailed"
                             /\ ErrMsg(f).status = f.status
                             /\ ErrMsg(f).msg = f.msg

\* the update was refused with 422 and a message: the error holds the
\* message and not the status
C24_Witness ==
    \E p \in Procs :
        /\ result[p] = [kind |-> "error", err |-> "PushFailed", at |-> "updateRef"]
        /\ hist[p].failed[Len(hist[p].failed)].status = 422
        /\ ErrMsg(hist[p].failed[Len(hist[p].failed)])
               = [status |-> -1, msg |-> "Update is not a fast forward"]

-----------------------------------------------------------------------------
(* Properties of the adapters' handling of a response, checked under Spec.  *)

\* the adapter that handled the last response
Handler == providers[resp.by].name

\* the adapter that handled the last response is no longer running: it
\* returned or threw, and generateCode went on or ended
AdapterEnded == gpc = "done" \/ cur # resp.by

\* the last response was HTTP 401 or HTTP 403
AuthRefused ==
    resp.k \in {"401", "403"} \/ (resp.k = "status" /\ resp.n = 403)

\* C25: in each of the three adapters a response with HTTP 401 or 403 makes
\* the adapter fail at once: it asks for nothing more, neither the same
\* model again nor another model.
C25_AuthFailsAtOnce == AuthRefused => AdapterEnded

\* generateWithGroq got 403 for its first model and has asked its second
C25_Witness ==
    /\ AuthRefused
    /\ Handler = "Groq"
    /\ resp.n = 403
    /\ gpc = "fetch"
    /\ cur = resp.by
    /\ reqs = <<1, 2>>

\* the number of requests the running adapter has made to its model m
RequestsTo(m) == Cardinality({i \in 1..Len(reqs) : reqs[i] = m})

\* the running adapter's request to model m is in flight
Requesting(m) ==
    /\ gpc = "fetch"
    /\ mdl = m
    /\ reqs[Len(reqs)] = m

\* the attempts an adapter makes on one model
AttemptsPerModel(name) == IF name = "Gemini" THEN 3 ELSE 1

\* the length of an adapter's fallback list
ModelsOf(name) ==
    CASE name = "Gemini" -> Len(GEMINI_MODELS)
      [] name = "Groq" -> Len(GROQ_MODELS)
      [] name = "HuggingFace" -> 1

\* after an HTTP 429 the running adapter, if it has attempts left for the
\* model, is sleeping or has asked the same model again; otherwise it has
\* gone on to the next model, or (generateWithGroq) sleeps before it does
AfterRateLimit ==
    (resp.k = "429" /\ ~AdapterEnded) =>
        IF resp.att + 1 < AttemptsPerModel(Handler)
            THEN /\ mdl = resp.m
                 /\ attempt = resp.att + 1
                 /\ \/ gpc = "sleep" /\ sleeps # <<>> /\ RequestsTo(resp.m) = resp.att + 1
                    \/ Requesting(resp.m) /\ sleeps = <<>>
                                          /\ RequestsTo(resp.m) = resp.att + 2
            ELSE /\ RequestsTo(resp.m) = AttemptsPerModel(Handler)
                 /\ \/ Handler = "Groq" /\ gpc = "sleep" /\ mdl = resp.m
                                        /\ sleeps = <<3000>>
                    \/ /\ resp.m < ModelsOf(Handler)
                       /\ Requesting(resp.m + 1)
                       /\ RequestsTo(resp.m + 1) = 1

\* an adapter that has ended on a 429 had used up the attempts of the last
\* model of its list
EndsOnlyExhausted ==
    (resp.k = "429" /\ AdapterEnded) =>
        /\ resp.att + 1 = AttemptsPerModel(Handler)
        /\ resp.m = ModelsOf(Handler)

-----------------------------------------------------------------------------
(* Properties of generateWithGemini's waits, checked under Spec.            *)

\* generateWithGemini has just handled a 429 with attempts left: none of the
\* sleeps it asks for before the next request has elapsed
JustRateLimited ==
    /\ resp.k = "429"
    /\ Handler = "Gemini"
    /\ cur = resp.by
    /\ gpc = "sleep"
    /\ Len(sleeps) = 2

\* the delay the claim gives: the hint in milliseconds, or 5000 ms times the
\* number of the attempt, and no more than 15000 ms
ClaimedDelay ==
    Min(IF resp.n >= 0 THEN resp.n * 1000 ELSE 5000 * (resp.att + 1), 15000)

\* C27: in generateWithGemini the whole delay between a 429 and the next
\* request to the same model is the retry hint (seconds times 1000) when
\* there is one, otherwise 5000 ms times the attempt number, and at most
\* 15000 ms; with a hint of 5 seconds it is 5000 ms.
C27_TotalDelay == JustRateLimited => sleeps[1] + sleeps[2] = ClaimedDelay

\* the bound alone: the whole delay is at most 15000 ms
DelayAtMostMax == JustRateLimited => sleeps[1] + sleeps[2] <= 15000

\* a first 429 with a hint of 5 seconds: 5000 ms and then 3000 ms are waited
C27_Witness ==
    /\ JustRateLimited
    /\ resp.n = 5
    /\ resp.att = 0
    /\ sleeps = <<5000, 3000>>

-----------------------------------------------------------------------------
(* Properties of the number of requests, checked under FairSpec.            *)

\* the adapter being awaited
Running == providers[cur].name

\* the requests the running adapter has made are within what its loops
\* allow: each to a model of its list, at most AttemptsPerModel to a model
RequestsBounded ==
    cur > 0 =>
        /\ \A i \in 1..Len(reqs) : reqs[i] \in 1..ModelsOf(Running)
        /\ \A m \in 1..ModelsOf(Running) : RequestsTo(m) <= AttemptsPerModel(Running)
        /\ Len(reqs) <= AttemptsPerModel(Running) * ModelsOf(Running)
        /\ Running = "Gemini" => Len(reqs) <= 6
        /\ Running = "Groq" => Len(reqs) <= 3
        /\ Running = "HuggingFace" => reqs = <<1>>

\* generateCode has ended with a text or with an error
Ended == gpc = "done" /\ outcome.kind \in {"returned", "thrown"}

\* C28: an adapter makes a bounded number of requests (generateWithGemini at
\* most 3 to each of its 2 models, generateWithGroq at most one to each of
\* its 3 models, generateWithHuggingFace exactly one), and generateCode, and
\* with it every adapter it has called, ends with a text or an error when
\* every request is answered.
C28_BoundedAndTerminates == []RequestsBounded /\ <>Ended

\* generateWithGemini has made all six of its requests and has ended
C28_Witness ==
    /\ Ended
    /\ cur > 0
    /\ Running = "Gemini"
    /\ reqs = <<1, 1, 1, 2, 2, 2>>
    /\ answered = 6

-----------------------------------------------------------------------------
(* Properties of generateWithGemini's catch, checked under Spec.            *)

\* the last response was a rejected fetch or a body that did not parse, in
\* generateWithGemini
GeminiException == resp.k = "exception" /\ Handler = "Gemini"

\* C29: in generateWithGemini an exception of the network call or of the
\* parsing of the response is transient whatever its message: the same
\* model is tried again while it has attempts left, then the next model is
\* tried, and the exception never ends the adapter.
C29_ExceptionTransient ==
    GeminiException =>
        IF resp.att < 2
            THEN /\ cur = resp.by
                 /\ mdl = resp.m
                 /\ attempt = resp.att + 1
                 /\ gpc = "sleep" \/ Requesting(resp.m)
            ELSE resp.m < Len(GEMINI_MODELS) =>
                     /\ cur = resp.by
                     /\ Requesting(resp.m + 1)

\* the first request threw an exception whose message holds 'invalid', and
\* generateWithGemini has ended without another request
C29_Witness ==
    /\ GeminiException
    /\ resp.ext = {"invalid"}
    /\ resp.att = 0
    /\ resp.m = 1
    /\ AdapterEnded
    /\ errors[Len(errors)] = Msg("Exception", -1, {"invalid"})

-----------------------------------------------------------------------------
(* Properties of the requests in flight, checked under Spec.                *)

\* the requests of the adapter being awaited that have not been answered
InFlight == Len(reqs) - answered

\* C30: within one generateCode request at most one request to a backend is
\* in flight: the adapters called are the first ones of the providers array,
\* the last of them the only one that has not ended; a request is in flight
\* exactly while its answer is awaited, and then no sleep is pending; while
\* a sleep is pending no request is in flight.
C30_OneInFlight ==
    /\ InFlight \in {0, 1}
    /\ InFlight = 1 <=> gpc = "fetch"
    /\ gpc = "fetch" => sleeps = <<>>
    /\ gpc = "sleep" <=> sleeps # <<>>
    /\ Len(invoked) = cur
    /\ \A i \in 1..cur : invoked[i] = providers[i].name

\* the second adapter was called after the first ended, its first request
\* was answered with 429, the sleep elapsed and its second request is in
\* flight
C30_Witness ==
    /\ cur = 2
    /\ Running = "Groq"
    /\ resp.k = "429"
    /\ resp.by = 2
    /\ gpc = "fetch"
    /\ reqs = <<1, 2>>
    /\ InFlight = 1

-----------------------------------------------------------------------------
(* Properties of the acceptance test of generateClarifications, checked     *)
(* under ClarifySpec.                                                       *)

\* a pair of the result comes from an element that had a question and a
\* non-empty list of options
WellFormedPair(q) == q.question # "undefined" /\ q.options # <<>>

\* C31: generateClarifications accepts an answer only if it parses to an
\* array of at least two elements each of which has a question and a
\* non-empty list of options: the questions it returns from a backend are at
\* least two and every one of them has a question and options.
C31_AcceptsOnlyWellFormed ==
    cresult.kind = "questions" =>
        /\ Len(cresult.items) >= 2
        /\ \A i \in 1..Len(cresult.items) : WellFormedPair(cresult.items[i])

\* an array whose second element has no question was accepted: the pair made
\* of it has the text of undefined as its question
C31_Witness ==
    /\ cpc = "done"
    /\ cresult.kind = "questions"
    /\ Len(cresult.items) = 2
    /\ cresult.items[2].question = "undefined"
    /\ cseen[Len(cseen)] = "accepted"

\* the last answer was a text that begins with the JSON text of an array and
\* has square brackets in what follows it
ArrayThenBrackets ==
    /\ canswer.k = "text"
    /\ canswer.items[1].t = "array"
    /\ \E i \in 2..Len(canswer.items) : canswer.items[i].t # "words"

\* C32: generateClarifications parses the first array-shaped substring of
\* the answer: when a well-formed array of questions is followed by text
\* that holds square brackets, what is parsed is that first array alone and
\* the answer is accepted.
C32_FirstArrayParsed ==
    ArrayThenBrackets =>
        /\ JsonMatch(canswer.items) = <<canswer.items[1]>>
        /\ cseen[Len(cseen)] = "accepted"
        /\ cresult.kind = "questions"

\* a good array followed by words and a bracketed aside: the match runs to
\* the last ], JSON.parse throws and the answer is dropped
C32_Witness ==
    /\ canswer = [k |-> "text",
                  items |-> <<ArrayText(<<GoodItem, GoodItem>>), Words, Aside>>]
    /\ Len(JsonMatch(canswer.items)) = 3
    /\ cseen[Len(cseen)] = "caught"
    /\ cresult.kind # "questions"

-----------------------------------------------------------------------------
(* Properties of what follows a terminal marker, checked under RepairSpec.  *)

\* the text t, trimmed, starts with the keyword of a declaration
DeclarationTail(t) ==
    \/ StartsWith(Trim(t), <<"c", "o", "n", "s", "t">>)
    \/ StartsWith(Trim(t), <<"f", "u", "n", "c", "t", "i", "o", "n">>)

\* C33: in cleanCodeResponse what follows the terminal marker (the last
\* export statement, or the last closing of a style sheet) is dropped unless
\* it starts with the keyword of a declaration, and what does start with
\* such a keyword is in the text cleanCodeResponse returns.
C33_DeclarationTailKept ==
    rpc = "cleaned" =>
        \A m \in TerminalMarkers : \A t \in Tails :
            (input = Lead \o m \o t /\ t # <<>>) =>
                IF DeclarationTail(t)
                    THEN Contains(cleaned, Trim(t))
                    ELSE StartsWith(Trim(t), <<"/", "/">>) \/ ~Contains(cleaned, Trim(t))

\* a declaration on the line after export default App; is gone from the
\* text cleanCodeResponse returned
C33_Witness ==
    /\ rpc = "cleaned"
    /\ input = Lead \o ExportDefaultApp \o <<"\n", "c", "o", "n", "s", "t", " ", "x">>
    /\ CutTrailingProse(input) = input
    /\ cleaned = <<"{", "}", "\n">> \o ExportDefaultApp

-----------------------------------------------------------------------------
(* Properties of the appended closers, checked under RepairSpec.            *)

\* how many times the character c is in the text
Occurrences(code, c) == Cardinality({i \in 1..Len(code) : code[i] = c})

\* how many more o than c the text has, 0 when it has no more
Unclosed(code, o, c) ==
    IF Occurrences(code, o) > Occurrences(code, c)
        THEN Occurrences(code, o) - Occurrences(code, c)
        ELSE 0

\* a text without quotes, in which every bracket counts, and on which the
\* export pass of lines 592-599 does nothing
PlainText(code) ==
    /\ \A i \in 1..Len(code) : code[i] \notin {"'", "\"", Backtick}
    /\ ~Contains(code, ExportWord)
    /\ ~DeclaresApp(code)

\* C34: the missing closers are appended in the fixed order every '}', then
\* every ')', then every ']', whatever the order in which the openers are
\* nested, and nowhere but at the end of the text.
C34_FixedOrder ==
    (rpc = "repaired" /\ PlainText(input)) =>
        LET code == FixPatterns(input)
        IN  repaired = code \o Repeat(<<"\n", "}">>, Unclosed(code, "{", "}"))
                            \o Repeat(<<")">>, Unclosed(code, "(", ")"))
                            \o Repeat(<<"]">>, Unclosed(code, "[", "]"))

\* a bracket opened inside a parenthesis: the parenthesis is closed first
C34_Witness ==
    /\ rpc = "repaired"
    /\ input = <<"(", "[">>
    /\ repaired = <<"(", "[", ")", "]">>

-----------------------------------------------------------------------------
(* Properties of the error raised after rate limiting, checked under Spec.  *)

\* every configured backend was called and has failed, and every response
\* any of them got was HTTP 429
AllRateLimited ==
    /\ gpc = "done"
    /\ outcome.kind = "thrown"
    /\ providers # <<>>
    /\ Len(invoked) = Len(providers)
    /\ only429

\* C35: when every configured backend has failed through HTTP 429 alone,
\* whichever backends are configured, Gemini alone included, generateCode
\* raises the rate-limit error and neither the generic nor the invalid-key
\* error.
C35_RateLimitAggregate == AllRateLimited => outcome.err = "RateLimit"

\* Gemini alone is configured, its six requests were answered 429 and the
\* generic error is raised
C35_Witness ==
    /\ AllRateLimited
    /\ Len(providers) = 1
    /\ providers[1].name = "Gemini"
    /\ reqs = <<1, 1, 1, 2, 2, 2>>
    /\ errors = <<Msg("GeminiRateLimited", -1, {})>>
    /\ outcome.err = "Generic"

-----------------------------------------------------------------------------
(* Properties of the export pass, checked under RepairSpec.                 *)

\* the index just after the first export default App; line of the text, 0
\* when the text has no such line
AfterExportLine(code) ==
    LET w == ExportDefaultApp \o <<"\n">>
        at == {i \in 1..Len(code) : StartsAt(code, i, w)}
    IN  IF at = {} THEN 0
        ELSE (CHOOSE i \in at : \A j \in at : i <= j) + Len(w)

\* C36: the export pass of fixCommonSyntaxErrors changes the export
\* statement only: the text that follows an export default App; line in
\* the text the pass receives (later declarations, closers the balancer has
\* just appended) is still in the text it gives.
C36_TextAfterExportKept ==
    rpc = "repaired" =>
        LET code == AppendClosers(FixPatterns(input))
            from == AfterExportLine(code)
        IN  from > 0 => Contains(repaired, SubSeq(code, from, Len(code)))

\* a declaration follows the export default App; line of the input: the
\* pass gives a text that ends with the export statement
C36_Witness ==
    /\ rpc = "repaired"
    /\ input = Lead \o ExportDefaultApp \o <<"\n", "c", "o", "n", "s", "t", " ", "x">>
    /\ AppendClosers(FixPatterns(input)) = input
    /\ repaired = Lead \o ExportDefaultApp

-----------------------------------------------------------------------------
(* Properties of two interleaved runs of pushCode, checked under            *)
(* ConcurrentSpec.                                                          *)

\* the run of p has ended, with the branch moved or with an error
PushEnded(p) == result[p].kind # "none"

\* both runs have read the branch head, and read the same commit
ReadSameHead(p, q) ==
    /\ p # q
    /\ "updateRef" \in Calls(p)
    /\ "updateRef" \in Calls(q)
    /\ push[p].latestSha = push[q].latestSha

\* C37: pushCode does not force the ref update: of two runs on the same
\* repository that have read the same branch head at most one moves the
\* branch and the other ends with an error; the commit of a run that moved
\* the branch stays in the history of the branch, and the branch only ever
\* moves forward.
C37_NoForcedUpdate ==
    /\ [](\A p, q \in Procs :
            (ReadSameHead(p, q) /\ PushEnded(p) /\ PushEnded(q)) =>
                /\ ~(result[p].kind = "ok" /\ result[q].kind = "ok")
                /\ result[p].kind = "ok" =>
                       result[q] = [kind |-> "error", err |-> "PushFailed",
                                    at |-> "updateRef"])
    /\ [](\A p \in Procs :
            result[p].kind = "ok" =>
                IsAncestor(push[p].commitSha, remote.head, commits))
    /\ [][IsAncestor(remote.head, remote'.head, commits')]_vars

\* both runs read the same head, one moved the branch, the other was refused
C37_Witness ==
    \E p, q \in Procs :
        /\ ReadSameHead(p, q)
        /\ result[p].kind = "ok"
        /\ remote.head = push[p].commitSha
        /\ result[q] = [kind |-> "error", err |-> "PushFailed", at |-> "updateRef"]

-----------------------------------------------------------------------------
(* Properties of the stored project list, checked under PersistSpec.        *)

\* the stored list shows the call of p: the project it saved is in the list
\* as it saved it, the project it deleted is not in the list
Reflected(p) ==
    IF sop[p].kind = "save"
        THEN \E k \in 1..Len(stored) : stored[k] = Project(sop[p].id, sop[p].rev)
        ELSE \A k \in 1..Len(stored) : stored[k].id # sop[p].id

\* both calls are over and they were about different projects
BothDone ==
    /\ \A p \in Procs : spc[p] = "done"
    /\ sop[1].id # sop[2].id

\* C38: no update of the stored list is lost when two calls overlap: after
\* two saveProject calls, or a saveProject and a deleteProject, for
\* different project ids, the stored list shows both calls, also when both
\* read the list before either wrote it.
C38_NoLostUpdate == BothDone => \A p \in Procs : Reflected(p)

\* two projects were saved by calls that both read the empty list: only the
\* project of the call that wrote last is stored
C38_Witness ==
    /\ BothDone
    /\ sop[1] = [kind |-> "save", id |-> 1, rev |-> 1]
    /\ sop[2] = [kind |-> "save", id |-> 2, rev |-> 2]
    /\ slocal[1] = <<>>
    /\ slocal[2] = <<>>
    /\ stored = <<Project(2, 2)>>

=============================================================================
